---- MODULE Spec2Model ----
(***************************************************************************)
(* Threshold-tree classification engine and Sankey aggregator of SAE_vis.  *)
(*                                                                         *)
(* Metric values are floats in the program; here they are small integers   *)
(* (only their order and equality matter to the code that is modelled).    *)
(* Python's None is NULL for a metric value, NoId for an absent node id    *)
(* and "None" for an absent metric state.  A feature row is a function     *)
(* whose DOMAIN is the set of keys the dict holds, so an absent key and a  *)
(* key holding None are different rows.                                    *)
(***************************************************************************)
EXTENDS Integers, Sequences, FiniteSets, TLC

VARIABLES
    pc,               \* position of the request being processed
    feature_row,      \* the row handed to the evaluator / the walk
    split_rule,       \* the rule handed to SplitEvaluator.evaluate
    children_ids,     \* the children list handed to SplitEvaluator.evaluate
    evaluation,       \* the EvaluationResult returned by SplitEvaluator.evaluate
    structure,        \* ThresholdStructure.nodes (a sequence of SankeyThreshold)
    current_node,     \* _classify_single_feature: current_node
    path,             \* _classify_single_feature: path
    stage_nodes,      \* _classify_single_feature: stage_nodes (stage -> node id)
    parent_path,      \* _classify_single_feature: parent_path
    forced,           \* _classify_single_feature: the loop was left by `break`
    final_node_id,    \* _classify_single_feature: the returned final_node_id
    df,               \* classify_features: the input table (sequence of rows)
    classified_df,    \* classify_features: the joined result table
    nodes,            \* build_sankey_data: the returned node list
    links,            \* build_sankey_data: the returned link list
    request,          \* the nodes handed to ThresholdStructure(nodes=...)
    previous,         \* what an earlier _classify_single_feature call returned
    sort_mode,        \* ClassificationEngine.sort_mode
    service,          \* the DataService instance (main.data_service), its fields
    traverser,        \* a ThresholdTreeTraverser: its tree and its cache
    response,         \* what the last call on a service object or the API answered
    history           \* calls made so far on the service objects

evalVars == <<split_rule, children_ids, evaluation>>
walkVars == <<current_node, path, stage_nodes, parent_path, forced, final_node_id,
              previous>>
tableVars == <<df, classified_df, nodes, links, sort_mode>>

serviceVars == <<service, traverser, response, history>>

vars == <<pc, feature_row, request, structure, evalVars, walkVars, tableVars,
         serviceVars>>

-----------------------------------------------------------------------------
(* Bounds of the model *)

MaxThresholds == 2
MaxPatterns == 2
MaxBranches == 2

-----------------------------------------------------------------------------
(* Values *)

NULL == 9999
NoId == "<None>"
NoState == "None"
Nothing == <<>>

Metrics == {"m1", "m2"}
Val == {-1, 0, 1, 2}
Thr == {0, 1, 2}
ChildIds == {"c0", "c1", "c2"}

\* dict.get(key, default)
Get(d, key, default) == IF key \in DOMAIN d THEN d[key] ELSE default

\* Python list positions are 0-based: s[i] of the program is At(s, i)
At(s, i) == s[i + 1]

\* x in s
Contains(s, x) == \E i \in 1..Len(s) : s[i] = x

\* list.index(x): the first 0-based position of x (only used when x in s;
\* the ValueError branch is taken by the callers through Contains)
Index(s, x) ==
    (CHOOSE i \in 1..Len(s) : s[i] = x /\ \A j \in 1..(i - 1) : s[j] # x) - 1

\* A row of the table: the feature_id column and the metric columns it holds
Row(feature_id, values) ==
    [key \in DOMAIN values \cup {"feature_id"} |->
        IF key = "feature_id" THEN feature_id ELSE values[key]]

\* assignments of values (or None) to a subset of the metric columns
MetricValues ==
    {values \in UNION {[D -> Val \cup {NULL}] : D \in SUBSET Metrics} :
        "m2" \in DOMAIN values => values["m2"] \in {0, 1, NULL}}

-----------------------------------------------------------------------------
(* Split rules (models/threshold_v2.py) *)

NoRule == [type |-> "none"]

RangeSplitRule(metric, thresholds) ==
    [type |-> "range", metric |-> metric, thresholds |-> thresholds]

\* RangeSplitRule.validate_thresholds_order
validate_thresholds_order(v) ==
    \A i \in 2..Len(v) : ~(v[i] <= v[i - 1])

PatternCondition(threshold, min, max, operator, value) ==
    [threshold |-> threshold, min |-> min, max |-> max,
     operator |-> operator, value |-> value]

Pattern(match, child_id) == [match |-> match, child_id |-> child_id]

PatternSplitRule(conditions, patterns, default_child_id) ==
    [type |-> "pattern", conditions |-> conditions, patterns |-> patterns,
     default_child_id |-> default_child_id]

\* PatternSplitRule.validate_conditions
validate_conditions(v) ==
    \A metric \in DOMAIN v :
        \/ v[metric].threshold # NULL
        \/ (v[metric].min # NULL \/ v[metric].max # NULL)
        \/ (v[metric].operator # NoState /\ v[metric].value # NULL)

ExpressionBranch(condition, child_id) ==
    [condition |-> condition, child_id |-> child_id]

ExpressionSplitRule(available_metrics, branches, default_child_id) ==
    [type |-> "expression", available_metrics |-> available_metrics,
     branches |-> branches, default_child_id |-> default_child_id]

\* EvaluationResult (split_evaluators.py); raised names the exception that
\* left the evaluator instead of a result ("" when it returned)
EvaluationResult(child_id, branch_index, split_info, triggering_values) ==
    [child_id |-> child_id, branch_index |-> branch_index,
     split_info |-> split_info, triggering_values |-> triggering_values,
     raised |-> ""]

Raised(exception) ==
    [child_id |-> NoId, branch_index |-> -1, split_info |-> [type |-> "none"],
     triggering_values |-> Nothing, raised |-> exception]

-----------------------------------------------------------------------------
(* SplitEvaluator.evaluate_range_split (split_evaluators.py) *)

\* the loop of lines 88-93, from 1-based position i with selected_range = selected
RECURSIVE range_scan_strict(_, _, _, _)
range_scan_strict(thresholds, value, i, selected) ==
    IF i > Len(thresholds) THEN selected
    ELSE IF value > thresholds[i]
         THEN range_scan_strict(thresholds, value, i + 1, i)
         ELSE selected

RECURSIVE range_scan(_, _, _, _)
range_scan(thresholds, value, i, selected) ==
    IF i > Len(thresholds) THEN selected
    ELSE IF value >= thresholds[i]
         THEN range_scan(thresholds, value, i + 1, i)
         ELSE selected

\* lines 83-85: value = feature_row.get(rule.metric, 0.0); None becomes 0.0
range_value(row, metric) ==
    LET value == Get(row, metric, 0)
    IN  IF value = NULL THEN 0 ELSE value

evaluate_range_split(row, rule, children) ==
    LET value == range_value(row, rule.metric)
        scanned == range_scan(rule.thresholds, value, 1, 0)
        selected_range == IF scanned >= Len(children)
                          THEN Len(children) - 1
                          ELSE scanned
    IN  IF Len(children) = 0
        THEN Raised("IndexError")
        ELSE EvaluationResult(
                 At(children, selected_range),
                 selected_range,
                 [type |-> "range", metric |-> rule.metric,
                  thresholds |-> rule.thresholds,
                  selected_range |-> selected_range],
                 [m \in {rule.metric} |-> value])

-----------------------------------------------------------------------------
(* SplitEvaluator.evaluate_pattern_split (split_evaluators.py) *)

_apply_operator(value, operator, threshold) ==
    CASE operator = ">"  -> value > threshold
      [] operator = ">=" -> value >= threshold
      [] operator = "<"  -> value < threshold
      [] operator = "<=" -> value <= threshold
      [] operator = "==" -> value = threshold
      [] operator = "!=" -> value # threshold

\* returns 'high', 'low', 'in_range', 'out_range' or None
_evaluate_condition(value, condition) ==
    IF condition.threshold # NULL
    THEN (IF value >= condition.threshold THEN "high" ELSE "low")
    ELSE IF condition.min # NULL /\ condition.max # NULL
    THEN (IF condition.min <= value /\ value <= condition.max
          THEN "in_range" ELSE "out_range")
    ELSE IF condition.operator # NoState /\ condition.value # NULL
    THEN (IF _apply_operator(value, condition.operator, condition.value)
          THEN "high" ELSE "low")
    ELSE NoState

\* lines 135-146: the state of every configured metric
metric_states(row, rule) ==
    [metric \in DOMAIN rule.conditions |->
        IF Get(row, metric, NULL) = NULL
        THEN NoState
        ELSE _evaluate_condition(row[metric], rule.conditions[metric])]

\* lines 136-145: the value (or None) of every configured metric
pattern_triggering_values(row, rule) ==
    [metric \in DOMAIN rule.conditions |-> Get(row, metric, NULL)]

_pattern_matches_any(states, pattern_match) ==
    \E metric \in DOMAIN pattern_match :
        \/ pattern_match[metric] = NoState
        \/ Get(states, metric, NoState) = pattern_match[metric]

_pattern_matches(states, pattern_match) ==
    \A metric \in DOMAIN pattern_match :
        \/ pattern_match[metric] = NoState
        \/ Get(states, metric, NoState) = pattern_match[metric]

\* the loop of lines 149-150: 1-based position of the pattern selected, 0 if none
first_match_last(states, patterns) ==
    LET hits == {i \in 1..Len(patterns) : _pattern_matches(states, patterns[i].match)}
    IN  IF hits = {} THEN 0 ELSE CHOOSE i \in hits : \A j \in hits : j <= i

first_match(states, patterns) ==
    LET hits == {i \in 1..Len(patterns) : _pattern_matches(states, patterns[i].match)}
    IN  IF hits = {} THEN 0 ELSE CHOOSE i \in hits : \A j \in hits : i <= j

\* lines 174-184: the child and branch index used when nothing matched;
\* a None or empty default_child_id is falsy
pattern_default_first(rule, children) ==
    LET child_id == IF rule.default_child_id \notin {NoId, ""}
                    THEN rule.default_child_id
                    ELSE IF Len(children) > 0 THEN children[1]
                    ELSE "unknown"
    IN  [child_id |-> child_id,
         branch_index |-> IF Contains(children, child_id)
                          THEN Index(children, child_id)
                          ELSE IF Len(children) > 0 THEN Len(children) - 1 ELSE 0]

pattern_default(rule, children) ==
    LET child_id == IF rule.default_child_id \notin {NoId, ""}
                    THEN rule.default_child_id
                    ELSE IF Len(children) > 0 THEN children[Len(children)]
                    ELSE "unknown"
    IN  [child_id |-> child_id,
         branch_index |-> IF Contains(children, child_id)
                          THEN Index(children, child_id)
                          ELSE IF Len(children) > 0 THEN Len(children) - 1 ELSE 0]

evaluate_pattern_split(row, rule, children) ==
    LET states == metric_states(row, rule)
        triggering_values == pattern_triggering_values(row, rule)
        hit == first_match(states, rule.patterns)
        default == pattern_default(rule, children)
    IN  IF hit # 0
        THEN EvaluationResult(
                 rule.patterns[hit].child_id,
                 IF Contains(children, rule.patterns[hit].child_id)
                 THEN Index(children, rule.patterns[hit].child_id)
                 ELSE 0,
                 [type |-> "pattern", pattern_index |-> hit - 1],
                 triggering_values)
        ELSE EvaluationResult(
                 default.child_id,
                 default.branch_index,
                 [type |-> "pattern", pattern_index |-> -1],
                 triggering_values)

-----------------------------------------------------------------------------
(* SplitEvaluator.evaluate_expression_split (split_evaluators.py)          *)
(*                                                                         *)
(* A branch condition is a string in the program.  Here it is the syntax   *)
(* tree of that string: a comparison `metric op literal`, a conjunction    *)
(* (&& or and), a disjunction (|| or or), a negation (! or not), or a text *)
(* that is no expression at all.  What the code does to the string is done *)
(* to the tree: the textual replacements, the character whitelist, eval(). *)

Cmp(metric, op, value) == [k |-> "cmp", metric |-> metric, op |-> op, value |-> value]
And(l, r) == [k |-> "and", l |-> l, r |-> r]
Or(l, r) == [k |-> "or", l |-> l, r |-> r]
Not(e) == [k |-> "not", e |-> e]
\* a text Python cannot parse, made of the characters chars (e.g. "m1 >")
Garbage(chars) == [k |-> "garbage", chars |-> chars]

\* the characters of a column name
NameChars(name) ==
    CASE name = "m1" -> {"m", "1"}
      [] name = "m2" -> {"m", "2"}
      [] name = "feature_id" -> {"f", "e", "a", "t", "u", "r", "_", "i", "d"}

\* the characters of a literal: digits, and a minus sign when negative
LiteralChars(value) == IF value < 0 THEN {"-", "0"} ELSE {"0"}

\* line 376: set('0123456789.()><=! andornotTrueFalse_'), digits written "0"
allowed_base ==
    {"0", ".", "(", ")", ">", "<", "=", "!", " ",
     "a", "n", "d", "o", "r", "t", "T", "u", "e", "F", "l", "s", "_",
     "1", "2"}

\* lines 371-373 on a comparison: replace('!', ' not ') turns the operator
\* != into the text " not =", which is no Python operator
RECURSIVE replace_operators(_)
replace_operators(e) ==
    CASE e.k = "cmp" ->
            IF e.op = "!="
            THEN Garbage(NameChars(e.metric) \cup LiteralChars(e.value)
                         \cup {" ", "n", "o", "t", "="})
            ELSE e
      [] e.k = "and" -> And(replace_operators(e.l), replace_operators(e.r))
      [] e.k = "or"  -> Or(replace_operators(e.l), replace_operators(e.r))
      [] e.k = "not" -> Not(replace_operators(e.e))
      [] OTHER -> e

\* the characters of the (rewritten) expression text
RECURSIVE ExprChars(_)
ExprChars(e) ==
    CASE e.k = "cmp" ->
            NameChars(e.metric) \cup LiteralChars(e.value) \cup {" "}
            \cup (CASE e.op = ">" -> {">"} [] e.op = ">=" -> {">", "="}
                     [] e.op = "<" -> {"<"} [] e.op = "<=" -> {"<", "="}
                     [] e.op = "==" -> {"="} [] e.op = "!=" -> {"!", "="})
      [] e.k = "and" -> ExprChars(e.l) \cup ExprChars(e.r) \cup {" ", "a", "n", "d"}
      [] e.k = "or"  -> ExprChars(e.l) \cup ExprChars(e.r) \cup {" ", "o", "r"}
      [] e.k = "not" -> ExprChars(e.e) \cup {" ", "n", "o", "t", "(", ")"}
      [] OTHER -> e.chars

\* whether Python compiles the text
RECURSIVE Parses(_)
Parses(e) ==
    CASE e.k = "cmp" -> TRUE
      [] e.k \in {"and", "or"} -> Parses(e.l) /\ Parses(e.r)
      [] e.k = "not" -> Parses(e.e)
      [] OTHER -> FALSE

\* Python's evaluation of a compiled expression in the namespace context:
\* "T", "F", or "E" when an exception is raised (NameError for a name that
\* is not in the namespace, TypeError for an ordering comparison with None);
\* and/or short-circuit
RECURSIVE PyEval(_, _)
PyEval(e, context) ==
    CASE e.k = "cmp" ->
            IF e.metric \notin DOMAIN context THEN "E"
            ELSE IF context[e.metric] = NULL
            THEN (CASE e.op = "==" -> "F" [] e.op = "!=" -> "T" [] OTHER -> "E")
            ELSE IF _apply_operator(context[e.metric], e.op, e.value)
            THEN "T" ELSE "F"
      [] e.k = "and" ->
            LET l == PyEval(e.l, context)
            IN  IF l = "T" THEN PyEval(e.r, context) ELSE l
      [] e.k = "or" ->
            LET l == PyEval(e.l, context)
            IN  IF l = "F" THEN PyEval(e.r, context) ELSE l
      [] e.k = "not" ->
            LET v == PyEval(e.e, context)
            IN  IF v = "T" THEN "F" ELSE IF v = "F" THEN "T" ELSE "E"

\* lines 376-378: the whitelist, extended by the characters of the namespace keys
allowed_chars(context) ==
    allowed_base \cup UNION {NameChars(metric) : metric \in DOMAIN context}

\* returns "True" or "False", or "ValueError" when line 381 raises
_evaluate_expression(expression, context) ==
    LET rewritten == replace_operators(expression)
    IN  IF ~(ExprChars(rewritten) \subseteq allowed_chars(context))
        THEN "ValueError"
        ELSE IF ~Parses(rewritten) THEN "False"
        ELSE IF PyEval(rewritten, context) = "T" THEN "True"
        ELSE "False"

\* lines 214-225: the namespace of the expressions; available_metrics is
\* <<>> when the rule declares none (None and [] are both falsy)
expression_context(row, rule) ==
    IF rule.available_metrics # <<>>
    THEN [metric \in {rule.available_metrics[i] :
                         i \in 1..Len(rule.available_metrics)} |->
              Get(row, metric, 0)]
    ELSE [key \in {k \in DOMAIN row : row[k] # NULL} |-> row[key]]

\* the loop of lines 228-260: 1-based position of the branch selected, 0 if none
first_true_branch_skip(branches, context) ==
    LET hits == {i \in 1..Len(branches) :
                    _evaluate_expression(branches[i].condition, context) = "True"}
    IN  IF hits = {} \/ 1 \notin hits THEN 0 ELSE 1

first_true_branch(branches, context) ==
    LET hits == {i \in 1..Len(branches) :
                    _evaluate_expression(branches[i].condition, context) = "True"}
    IN  IF hits = {} THEN 0 ELSE CHOOSE i \in hits : \A j \in hits : i <= j

evaluate_expression_split(row, rule, children) ==
    LET triggering_values == expression_context(row, rule)
        hit == first_true_branch(rule.branches, triggering_values)
        child_id == rule.default_child_id
    IN  IF hit # 0
        THEN EvaluationResult(
                 rule.branches[hit].child_id,
                 IF Contains(children, rule.branches[hit].child_id)
                 THEN Index(children, rule.branches[hit].child_id)
                 ELSE 0,
                 [type |-> "expression", branch_index |-> hit - 1],
                 triggering_values)
        ELSE EvaluationResult(
                 child_id,
                 IF Contains(children, child_id)
                 THEN Index(children, child_id)
                 ELSE IF Len(children) > 0 THEN Len(children) - 1 ELSE 0,
                 [type |-> "expression", branch_index |-> -1],
                 triggering_values)

\* SplitEvaluator.evaluate: dispatch on the rule's class
evaluate(row, rule, children) ==
    CASE rule.type = "range" -> evaluate_range_split(row, rule, children)
      [] rule.type = "pattern" -> evaluate_pattern_split(row, rule, children)
      [] rule.type = "expression" -> evaluate_expression_split(row, rule, children)
      [] OTHER -> Raised("ValueError")

-----------------------------------------------------------------------------
(* SankeyThreshold.validate_children_consistency (models/threshold_v2.py) *)

SeqToSet(s) == {s[i] : i \in 1..Len(s)}

validate_children_consistency(v, rule) ==
    CASE rule.type = "range" -> Len(v) = Len(rule.thresholds) + 1
      [] rule.type = "pattern" ->
            ({rule.patterns[i].child_id : i \in 1..Len(rule.patterns)}
             \cup (IF rule.default_child_id \notin {NoId, ""}
                   THEN {rule.default_child_id} ELSE {}))
            \subseteq SeqToSet(v)
      [] rule.type = "expression" ->
            ({rule.branches[i].child_id : i \in 1..Len(rule.branches)}
             \cup {rule.default_child_id})
            \subseteq SeqToSet(v)
      [] OTHER -> Len(v) = 0

-----------------------------------------------------------------------------
(* The rules, children lists and rows the evaluators are exercised on *)

SeqsUpTo(S, n) == UNION {[1..k -> S] : k \in 1..n}

RangeRules ==
    {RangeSplitRule(metric, thresholds) :
        metric \in Metrics,
        thresholds \in {t \in SeqsUpTo(Thr, MaxThresholds) : validate_thresholds_order(t)}}

OnlyThreshold(t) == PatternCondition(t, NULL, NULL, NoState, NULL)
OnlyMinMax(lo, hi) == PatternCondition(NULL, lo, hi, NoState, NULL)
OnlyOperator(op, v) == PatternCondition(NULL, NULL, NULL, op, v)
OnlyMin(lo) == PatternCondition(NULL, lo, NULL, NoState, NULL)

ConditionMaps ==
    {[m \in {"m1"} |-> OnlyThreshold(1)],
     [m \in Metrics |-> IF m = "m1" THEN OnlyThreshold(1) ELSE OnlyMinMax(0, 1)],
     [m \in Metrics |-> IF m = "m1" THEN OnlyOperator(">", 0) ELSE OnlyThreshold(0)],
     [m \in {"m1"} |-> OnlyMin(1)]}

Matches ==
    {[m \in {"m1"} |-> "high"],
     [m \in {"m1"} |-> "low"],
     [m \in Metrics |-> IF m = "m1" THEN NoState ELSE "in_range"],
     [m \in Metrics |-> "high"]}

Patterns == {Pattern(match, child_id) : match \in Matches, child_id \in {"c0", "c1"}}

PatternRules ==
    {r \in {PatternSplitRule(conditions, patterns, default) :
                conditions \in ConditionMaps,
                patterns \in SeqsUpTo(Patterns, MaxPatterns),
                default \in {NoId, "c2"}} :
        validate_conditions(r.conditions)}

Conditions ==
    {Cmp("m1", ">", 0),
     Cmp("m1", "!=", 1),
     Or(Cmp("m1", ">", 1), Cmp("m2", ">=", 1)),
     And(Not(Cmp("m1", ">", 0)), Cmp("m2", "==", 1)),
     Cmp("m1", ">", -1),
     Garbage({"m", "1", " ", ">"})}

Branches ==
    {ExpressionBranch(condition, child_id) :
        condition \in Conditions, child_id \in {"c0", "c1"}}

ExpressionRules ==
    {ExpressionSplitRule(available_metrics, branches, "c2") :
        available_metrics \in {<<>>, <<"m1">>, <<"m1", "m2">>},
        branches \in SeqsUpTo(Branches, MaxBranches)}

\* the children lists SankeyThreshold accepts with the rule
ChildrenFor(rule) ==
    IF rule.type = "range"
    THEN [1..(Len(rule.thresholds) + 1) -> ChildIds]
    ELSE {v \in {<<"c0", "c1", "c2">>, <<"c2", "c0", "c1">>} :
             validate_children_consistency(v, rule)}

EvalRows == {Row(1, values) : values \in MetricValues}

-----------------------------------------------------------------------------
(* Specification SpecEval: one call of SplitEvaluator.evaluate *)

NoEvaluation == Raised("not called")

\* no earlier call of _classify_single_feature
NoResult == [outcome |-> "not called"]

\* ClassificationEngine.__init__: sort_mode defaults to 'within_parent'
SortModes == {"within_parent", "global"}

\* DataService.__init__ (lines 22-31); no traverser built, no call made
IdleService ==
    /\ service = [_df_lazy |-> "None", _filter_options_cache |-> "None",
                  _ready |-> FALSE]
    /\ traverser = [tree |-> "None", cache |-> {}]
    /\ response = [call |-> "none"]
    /\ history = [calls |-> 0, initialized |-> FALSE]

IdleWalk ==
    /\ request = <<>>
    /\ structure = <<>>
    /\ previous = NoResult
    /\ current_node = NoId
    /\ path = <<>>
    /\ stage_nodes = <<>>
    /\ parent_path = <<>>
    /\ forced = FALSE
    /\ final_node_id = NoId

IdleEval ==
    /\ split_rule = NoRule
    /\ children_ids = <<>>
    /\ evaluation = NoEvaluation

IdleTable ==
    /\ df = <<>>
    /\ classified_df = <<>>
    /\ nodes = <<>>
    /\ links = <<>>
    /\ sort_mode = "within_parent"

InitEval ==
    /\ pc = "call"
    /\ split_rule \in RangeRules \cup PatternRules \cup ExpressionRules
    /\ children_ids \in ChildrenFor(split_rule)
    /\ feature_row \in EvalRows
    /\ evaluation = NoEvaluation
    /\ IdleWalk
    /\ IdleTable
    /\ IdleService

EvaluateRange ==
    /\ pc = "call"
    /\ split_rule.type = "range"
    /\ evaluation' = evaluate(feature_row, split_rule, children_ids)
    /\ pc' = "returned"
    /\ UNCHANGED <<serviceVars, feature_row, split_rule, children_ids, request, structure,
                   walkVars, tableVars>>

EvaluatePattern ==
    /\ pc = "call"
    /\ split_rule.type = "pattern"
    /\ evaluation' = evaluate(feature_row, split_rule, children_ids)
    /\ pc' = "returned"
    /\ UNCHANGED <<serviceVars, feature_row, split_rule, children_ids, request, structure,
                   walkVars, tableVars>>

EvaluateExpression ==
    /\ pc = "call"
    /\ split_rule.type = "expression"
    /\ evaluation' = evaluate(feature_row, split_rule, children_ids)
    /\ pc' = "returned"
    /\ UNCHANGED <<serviceVars, feature_row, split_rule, children_ids, request, structure,
                   walkVars, tableVars>>

NextEval == EvaluateRange \/ EvaluatePattern \/ EvaluateExpression

SpecEval == InitEval /\ [][NextEval]_vars

-----------------------------------------------------------------------------
(* Properties of the evaluators, under SpecEval *)

Returned(type) ==
    pc = "returned" /\ split_rule.type = type /\ evaluation.raised = ""

\* the value the claim gives the rule's metric: 0.0 when absent or null
C1_Value ==
    IF split_rule.metric \in DOMAIN feature_row
       /\ feature_row[split_rule.metric] # NULL
    THEN feature_row[split_rule.metric]
    ELSE 0

\* C1: evaluate_range_split returns children_ids[k] with branch_index = k,
\* k the number of thresholds t with value >= t (a value equal to a
\* threshold goes to the higher branch), an absent or null metric being
\* evaluated as 0.0.
C1_RangeBranch ==
    (pc = "returned" /\ split_rule.type = "range") =>
        LET k == Cardinality({i \in 1..Len(split_rule.thresholds) :
                                 C1_Value >= split_rule.thresholds[i]})
        IN  /\ evaluation.raised = ""
            /\ evaluation.branch_index = k
            /\ evaluation.child_id = At(children_ids, k)

\* C1 witness: a present value equal to the second threshold was routed
C1_Witness ==
    /\ Returned("range")
    /\ Len(split_rule.thresholds) = 2
    /\ split_rule.metric \in DOMAIN feature_row
    /\ feature_row[split_rule.metric] = split_rule.thresholds[2]
    /\ evaluation.branch_index = 2

\* the state the rule's conditions give a metric, None when not computed
C2_State(metric) ==
    IF metric \in DOMAIN split_rule.conditions
       /\ metric \in DOMAIN feature_row
       /\ feature_row[metric] # NULL
    THEN _evaluate_condition(feature_row[metric], split_rule.conditions[metric])
    ELSE NoState

\* the patterns all of whose non-wildcard entries equal the metric's state
C2_Hits ==
    {i \in 1..Len(split_rule.patterns) :
        \A metric \in DOMAIN split_rule.patterns[i].match :
            split_rule.patterns[i].match[metric] # NoState =>
                split_rule.patterns[i].match[metric] = C2_State(metric)}

C2_Swapped(i, j) ==
    [split_rule EXCEPT !.patterns =
        [n \in 1..Len(split_rule.patterns) |->
            IF n = i THEN split_rule.patterns[j]
            ELSE IF n = j THEN split_rule.patterns[i]
            ELSE split_rule.patterns[n]]]

\* C2: evaluate_pattern_split selects the child of the first pattern, in
\* declaration order, all of whose non-wildcard entries equal the computed
\* state; when a later pattern with another child matches too, swapping the
\* two changes the selected child.
C2_FirstMatchWins ==
    (pc = "returned" /\ split_rule.type = "pattern" /\ C2_Hits # {}) =>
        LET first == CHOOSE i \in C2_Hits : \A j \in C2_Hits : i <= j
        IN  /\ evaluation.raised = ""
            /\ evaluation.child_id = split_rule.patterns[first].child_id
            /\ evaluation.split_info.pattern_index = first - 1
            /\ \A j \in C2_Hits :
                  split_rule.patterns[j].child_id # split_rule.patterns[first].child_id =>
                      /\ evaluate_pattern_split(feature_row, C2_Swapped(first, j),
                                                children_ids).child_id
                            = split_rule.patterns[j].child_id
                      /\ evaluate_pattern_split(feature_row, C2_Swapped(first, j),
                                                children_ids).child_id
                            # evaluation.child_id

\* C2 witness: the first two patterns are different patterns that both
\* match, and name different children
C2_Witness ==
    /\ Returned("pattern")
    /\ Len(split_rule.patterns) >= 2
    /\ 1 \in C2_Hits /\ 2 \in C2_Hits
    /\ split_rule.patterns[1].child_id # split_rule.patterns[2].child_id
    /\ split_rule.patterns[1].match # split_rule.patterns[2].match

\* C3: when no pattern matches, or no branch evaluates true, the evaluator
\* returns the declared default_child_id; a PatternRule without one returns
\* the last entry of children_ids.
C3_DefaultFallback ==
    /\ (pc = "returned" /\ split_rule.type = "pattern" /\ C2_Hits = {}) =>
          /\ evaluation.raised = ""
          /\ evaluation.child_id =
                IF split_rule.default_child_id # NoId
                THEN split_rule.default_child_id
                ELSE children_ids[Len(children_ids)]
    /\ (pc = "returned" /\ split_rule.type = "expression"
         /\ \A i \in 1..Len(split_rule.branches) :
               _evaluate_expression(split_rule.branches[i].condition,
                                    expression_context(feature_row, split_rule))
                   # "True") =>
          /\ evaluation.raised = ""
          /\ evaluation.child_id = split_rule.default_child_id

\* C3 witness: a pattern rule without default fell back to its last child
C3_Witness ==
    /\ Returned("pattern")
    /\ C2_Hits = {}
    /\ split_rule.default_child_id = NoId
    /\ evaluation.child_id = children_ids[Len(children_ids)]
    /\ evaluation.child_id # children_ids[1]

\* the state the claim gives a present value under a condition
C20_Expected(value, condition) ==
    IF condition.threshold # NULL
    THEN (IF value >= condition.threshold THEN "high" ELSE "low")
    ELSE IF condition.min # NULL \/ condition.max # NULL
    THEN (IF (condition.min = NULL \/ condition.min <= value)
             /\ (condition.max = NULL \/ value <= condition.max)
          THEN "in_range" ELSE "out_range")
    ELSE (IF _apply_operator(value, condition.operator, condition.value)
          THEN "high" ELSE "low")

\* C20: for every condition PatternSplitRule validation accepts,
\* evaluate_pattern_split gives a metric the state None exactly when its
\* value is absent or null in the row, and a present value the state of its
\* condition: high / low by threshold, in_range / out_range by min and max,
\* high / low by the operator comparison.
C20_QualitativeState ==
    (pc = "returned" /\ split_rule.type = "pattern"
      /\ validate_conditions(split_rule.conditions)) =>
        \A metric \in DOMAIN split_rule.conditions :
            /\ (metric_states(feature_row, split_rule)[metric] = NoState)
                  <=> (Get(feature_row, metric, NULL) = NULL)
            /\ Get(feature_row, metric, NULL) # NULL =>
                  metric_states(feature_row, split_rule)[metric]
                      = C20_Expected(feature_row[metric],
                                     split_rule.conditions[metric])

\* C20 for the conditions of one kind with all its fields: a threshold,
\* both min and max, or operator and value
C20_Complete(condition) ==
    \/ condition.threshold # NULL
    \/ condition.min # NULL /\ condition.max # NULL
    \/ condition.min = NULL /\ condition.max = NULL

\* the states of the metrics whose condition is complete are those of C20
C20_CompleteConditionState ==
    (pc = "returned" /\ split_rule.type = "pattern") =>
        \A metric \in DOMAIN split_rule.conditions :
            C20_Complete(split_rule.conditions[metric]) =>
                /\ (metric_states(feature_row, split_rule)[metric] = NoState)
                      <=> (Get(feature_row, metric, NULL) = NULL)
                /\ Get(feature_row, metric, NULL) # NULL =>
                      metric_states(feature_row, split_rule)[metric]
                          = C20_Expected(feature_row[metric],
                                         split_rule.conditions[metric])

\* whether a condition (comparisons combined with and/or/not) is true of the
\* values: it passes the whitelist, is an expression, and evaluates to true
C4_True(condition, context) ==
    /\ ExprChars(condition) \subseteq allowed_chars(context)
    /\ Parses(condition)
    /\ PyEval(condition, context) = "T"

\* C4: evaluate_expression_split selects the child of the first branch, in
\* declaration order, whose condition is true of the feature's values; a
\* branch that cannot be parsed or whose evaluation fails counts as false,
\* no exception leaves the evaluator, and the default child is selected if
\* no branch is true.
C4_FirstTrueBranch ==
    (pc = "returned" /\ split_rule.type = "expression") =>
        LET context == expression_context(feature_row, split_rule)
            hits == {i \in 1..Len(split_rule.branches) :
                        C4_True(split_rule.branches[i].condition, context)}
        IN  /\ evaluation.raised = ""
            /\ evaluation.child_id =
                  IF hits = {} THEN split_rule.default_child_id
                  ELSE split_rule.branches[CHOOSE i \in hits :
                                              \A j \in hits : i <= j].child_id

-----------------------------------------------------------------------------
(* Specification SpecRange: evaluate_range_split called with any children list *)

\* children lists of every length from none to one per range
AnyChildren ==
    {<<>>} \cup SeqsUpTo(ChildIds, MaxThresholds + 1)

InitRange ==
    /\ pc = "call"
    /\ split_rule \in RangeRules
    /\ children_ids \in AnyChildren
    /\ feature_row \in EvalRows
    /\ evaluation = NoEvaluation
    /\ IdleWalk
    /\ IdleTable
    /\ IdleService

NextRange == EvaluateRange

SpecRange == InitRange /\ [][NextRange]_vars

\* the range index the thresholds give the row's value
C21_Index ==
    Cardinality({i \in 1..Len(split_rule.thresholds) :
                    C1_Value >= split_rule.thresholds[i]})

\* C21: when the range index is no valid position in children_ids, the
\* evaluator returns the last child with branch_index = len(children_ids) - 1
\* and does not raise, whatever children_ids list it is given.
C21_ClampToLastChild ==
    (pc = "returned" /\ C21_Index >= Len(children_ids)) =>
        /\ evaluation.raised = ""
        /\ evaluation.branch_index = Len(children_ids) - 1
        /\ evaluation.child_id = children_ids[Len(children_ids)]

\* the same for the children lists that have a last child
C21_ClampNonEmpty ==
    (pc = "returned" /\ C21_Index >= Len(children_ids) /\ children_ids # <<>>) =>
        /\ evaluation.raised = ""
        /\ evaluation.branch_index = Len(children_ids) - 1
        /\ evaluation.child_id = children_ids[Len(children_ids)]

-----------------------------------------------------------------------------
(* SankeyThreshold and ThresholdStructure (models/threshold_v2.py) *)

ParentPathInfo(parent_id, parent_split_rule, branch_index, triggering_values) ==
    [parent_id |-> parent_id, parent_split_rule |-> parent_split_rule,
     branch_index |-> branch_index, triggering_values |-> triggering_values]

SankeyThreshold(id, stage, category, parent_path_, split_rule_, children_ids_) ==
    [id |-> id, stage |-> stage, category |-> category,
     parent_path |-> parent_path_, split_rule |-> split_rule_,
     children_ids |-> children_ids_, children_supplied |-> TRUE]

\* a node constructed from input without a children_ids entry: the field
\* takes its default, the empty list
DefaultChildren(id, stage, category, parent_path_, split_rule_) ==
    [id |-> id, stage |-> stage, category |-> category,
     parent_path |-> parent_path_, split_rule |-> split_rule_,
     children_ids |-> <<>>, children_supplied |-> FALSE]

CategoryType == {"root", "feature_splitting", "semantic_distance", "score_agreement"}

\* the field validators of one node: stage >= 0, a category of the
\* enumeration, the rule's own validators, and validate_children_consistency,
\* which runs only on a children_ids value the input supplies
ValidNode(node) ==
    /\ node.stage >= 0
    /\ node.category \in CategoryType
    /\ node.split_rule.type = "range" =>
          /\ Len(node.split_rule.thresholds) >= 1
          /\ validate_thresholds_order(node.split_rule.thresholds)
    /\ node.split_rule.type = "pattern" =>
          /\ Len(node.split_rule.patterns) >= 1
          /\ validate_conditions(node.split_rule.conditions)
    /\ node.split_rule.type = "expression" =>
          Len(node.split_rule.branches) >= 1
    /\ node.children_supplied =>
          validate_children_consistency(node.children_ids, node.split_rule)

\* lines 339-341: exactly one node has stage 0
one_root_at_least(v) ==
    Cardinality({i \in 1..Len(v) : v[i].stage = 0}) >= 1

one_root(v) ==
    Cardinality({i \in 1..Len(v) : v[i].stage = 0}) = 1

\* lines 343-348: every entry of every children_ids is the id of a node
children_exist_first(v) ==
    \A i \in 1..Len(v) :
        Len(v[i].children_ids) > 0 =>
            v[i].children_ids[1] \in {v[j].id : j \in 1..Len(v)}

children_exist(v) ==
    \A i \in 1..Len(v) : \A c \in 1..Len(v[i].children_ids) :
        v[i].children_ids[c] \in {v[j].id : j \in 1..Len(v)}

\* lines 350-356: the check made on the nodes with stage > 0
parent_paths_match(v) ==
    \A i \in 1..Len(v) :
        ~(v[i].stage > 0 /\ Len(v[i].parent_path) # v[i].stage)

\* ThresholdStructure.validate_structure (nodes has min_items = 1)
validate_structure(v) ==
    /\ Len(v) >= 1
    /\ one_root(v)
    /\ children_exist(v)
    /\ parent_paths_match(v)

\* a ThresholdStructure is constructed from v without a validation error
Accepted(v) ==
    /\ \A i \in 1..Len(v) : ValidNode(v[i])
    /\ validate_structure(v)

\* ThresholdStructure.get_root: the first node with stage 0
get_root(v) ==
    v[CHOOSE i \in 1..Len(v) :
          v[i].stage = 0 /\ \A j \in 1..(i - 1) : v[j].stage # 0]

\* ThresholdStructure.get_node_by_id: the first node with the id, else None
get_node_by_id(v, node_id) ==
    IF \E i \in 1..Len(v) : v[i].id = node_id
    THEN v[CHOOSE i \in 1..Len(v) :
               v[i].id = node_id /\ \A j \in 1..(i - 1) : v[j].id # node_id]
    ELSE NoId

\* classification.py line 75: {node.id: node for node in nodes}; a later
\* node replaces an earlier one with the same id
nodes_by_id(v) ==
    [id \in {v[i].id : i \in 1..Len(v)} |->
        v[CHOOSE i \in 1..Len(v) :
              v[i].id = id /\ \A j \in (i + 1)..Len(v) : v[j].id # id]]

-----------------------------------------------------------------------------
(* ClassificationEngine._classify_single_feature (classification.py) *)

\* d[key] = value on a dict
Put(d, key, value) ==
    [k \in DOMAIN d \cup {key} |-> IF k = key THEN value ELSE d[k]]

\* lines 140-143: the state before the loop
walk_init(root) ==
    [current_node |-> root, path |-> <<root.id>>,
     stage_nodes |-> [k \in {root.stage} |-> root.id],
     parent_path |-> <<>>, forced |-> FALSE, done |-> FALSE, raised |-> ""]

\* lines 140-143 at a later call: the locals the earlier call left behind
\* (leftover) belong to its own frame; the new call starts from walk_init
call_locals_keep(root, leftover) ==
    [walk_init(root) EXCEPT !.parent_path = leftover.parent_path]

call_locals(root, leftover) == walk_init(root)

select_child_first(evaluation_, children) ==
    IF children = <<>> THEN evaluation_.child_id ELSE children[1]

\* line 164: the child the walk moves to
select_child(evaluation_, children) == evaluation_.child_id

child_not_found_raise(w, node, evaluation_) ==
    [w EXCEPT !.done = TRUE, !.raised = "KeyError"]

\* lines 154-167: the selected child id is no key of nodes_by_id: the
\* parent_path entry is already appended, the loop is left by `break`
child_not_found(w, node, evaluation_) ==
    [w EXCEPT !.parent_path =
                  Append(w.parent_path,
                         ParentPathInfo(node.id, evaluation_.split_info,
                                        evaluation_.branch_index,
                                        evaluation_.triggering_values)),
              !.forced = TRUE, !.done = TRUE]

\* lines 154-171: the rest of an iteration, once the rule is evaluated
walk_move(w, node, evaluation_, by_id) ==
    IF evaluation_.raised # ""
    THEN [w EXCEPT !.done = TRUE, !.raised = evaluation_.raised]
    ELSE IF select_child(evaluation_, node.children_ids) \notin DOMAIN by_id
    THEN child_not_found(w, node, evaluation_)
    ELSE [w EXCEPT !.current_node = by_id[select_child(evaluation_, node.children_ids)],
                   !.path = Append(w.path,
                       by_id[select_child(evaluation_, node.children_ids)].id),
                   !.stage_nodes = Put(w.stage_nodes,
                       by_id[select_child(evaluation_, node.children_ids)].stage,
                       by_id[select_child(evaluation_, node.children_ids)].id),
                   !.parent_path =
                       Append(w.parent_path,
                              ParentPathInfo(node.id, evaluation_.split_info,
                                             evaluation_.branch_index,
                                             evaluation_.triggering_values))]

\* lines 146-171: the loop test and one iteration
walk_step(w, row, by_id) ==
    IF w.current_node.split_rule.type = "none"
    THEN [w EXCEPT !.done = TRUE]
    ELSE walk_move(w, w.current_node,
                   evaluate(row, w.current_node.split_rule,
                            w.current_node.children_ids),
                   by_id)

-----------------------------------------------------------------------------
(* Node ids and the structures the classification is exercised on *)

R == "root"
SF == "split_false"
ST == "split_true"
STL == "split_true_semdist_low"
STH == "split_true_semdist_high"
STF == "split_true_1_of_3_high_fuzz"
STS == "split_true_1_of_3_high_sim"
STA == "split_true_all_3_low"
STD == "split_true_1_of_3_high_det"
ST1 == "split_true_1_of_3_high"

\* a parent_path of the given length (validation reads its length only)
PathOfLength(n) ==
    [i \in 1..n |-> ParentPathInfo(R, [type |-> "none"], 0, Nothing)]

Leaf(id, stage, category) ==
    SankeyThreshold(id, stage, category, PathOfLength(stage), NoRule, <<>>)

Inner(id, stage, category, rule, children) ==
    SankeyThreshold(id, stage, category, PathOfLength(stage), rule, children)

RootRange == Inner(R, 0, "root", RangeSplitRule("m1", <<1>>), <<SF, ST>>)

ScorePattern ==
    PatternSplitRule(
        [m \in Metrics |-> IF m = "m1" THEN OnlyThreshold(2) ELSE OnlyThreshold(1)],
        <<Pattern([m \in {"m2"} |-> "high"], STF),
          Pattern([m \in {"m1"} |-> "high"], STS)>>,
        STA)

RootExpression ==
    ExpressionSplitRule(<<>>,
        <<ExpressionBranch(Cmp("m1", ">", 1), ST),
          ExpressionBranch(Or(Cmp("m2", ">=", 1), Cmp("m1", "==", 1)), SF)>>,
        ST)

\* one split into two leaves (the request of test_single_node_growth_fixed.py
\* before the growth)
TwoLeaves ==
    <<RootRange, Leaf(SF, 1, "feature_splitting"), Leaf(ST, 1, "feature_splitting")>>

\* the same, the children declared in the other order
TwoLeavesTrueFirst ==
    <<RootRange, Leaf(ST, 1, "feature_splitting"), Leaf(SF, 1, "feature_splitting")>>

\* one child grown to stage 2 (test_single_node_growth_fixed.py)
SingleGrowth ==
    <<RootRange,
      Leaf(SF, 1, "feature_splitting"),
      Inner(ST, 1, "feature_splitting", RangeSplitRule("m2", <<1>>), <<STL, STH>>),
      Leaf(STL, 2, "semantic_distance"),
      Leaf(STH, 2, "semantic_distance")>>

\* score-agreement leaves with detailed ids under a pattern rule
ScoreLeaves ==
    <<RootRange,
      Leaf(SF, 1, "feature_splitting"),
      Inner(ST, 1, "feature_splitting", ScorePattern, <<STA, STF, STS>>),
      Leaf(STA, 2, "score_agreement"),
      Leaf(STF, 2, "score_agreement"),
      Leaf(STS, 2, "score_agreement")>>

\* an expression rule at the root
ExpressionRoot ==
    <<Inner(R, 0, "root", RootExpression, <<SF, ST>>),
      Leaf(SF, 1, "feature_splitting"), Leaf(ST, 1, "feature_splitting")>>

\* both branches of the root name the same child
OneTarget ==
    <<Inner(R, 0, "root", RangeSplitRule("m1", <<1>>), <<ST, ST>>),
      Leaf(ST, 1, "feature_splitting")>>

\* the root lists itself as a child
RootLoop ==
    <<Inner(R, 0, "root", RangeSplitRule("m1", <<1>>), <<R, ST>>),
      Leaf(ST, 1, "feature_splitting")>>

\* a stage-1 node lists itself and its sibling as children
SelfLoop ==
    <<RootRange,
      Leaf(SF, 1, "feature_splitting"),
      Inner(ST, 1, "feature_splitting", RangeSplitRule("m2", <<1>>), <<SF, ST>>)>>

\* children whose stage is not their parent's stage + 1
SkewedStages ==
    <<RootRange,
      Leaf(SF, 1, "feature_splitting"),
      Inner(ST, 1, "feature_splitting", RangeSplitRule("m2", <<1>>), <<STL, STH>>),
      Leaf(STL, 1, "semantic_distance"),
      Leaf(STH, 3, "semantic_distance")>>

\* a pattern rule on a root whose input gives no children_ids; its default
\* child is no node of the structure
GhostDefault ==
    <<DefaultChildren(R, 0, "root", <<>>,
          PatternSplitRule([m \in {"m1"} |-> OnlyThreshold(1)],
                           <<Pattern([m \in {"m1"} |-> "high"], ST)>>, SF)),
      Leaf(ST, 1, "feature_splitting")>>

\* a stage-1 pattern rule whose input gives no children_ids; the child of
\* its pattern is a node, its default child is not
GhostBelow ==
    <<RootRange,
      Leaf(SF, 1, "feature_splitting"),
      DefaultChildren(ST, 1, "feature_splitting", PathOfLength(1),
          PatternSplitRule([m \in {"m2"} |-> OnlyThreshold(1)],
                           <<Pattern([m \in {"m2"} |-> "high"], STH)>>, STL)),
      Leaf(STH, 2, "semantic_distance")>>

\* a range rule on a root whose input gives no children_ids
NoChildren ==
    <<DefaultChildren(R, 0, "root", <<>>, RangeSplitRule("m1", <<1>>)),
      Leaf(ST, 1, "feature_splitting")>>

\* detailed score-agreement nodes below one another, stages 2 to 4
NestedScores ==
    <<RootRange,
      Leaf(SF, 1, "feature_splitting"),
      Inner(ST, 1, "feature_splitting", RangeSplitRule("m2", <<1>>), <<STA, STF>>),
      Leaf(STA, 2, "score_agreement"),
      Inner(STF, 2, "score_agreement", RangeSplitRule("m1", <<1>>), <<STS, STS>>),
      Inner(STS, 3, "score_agreement", RangeSplitRule("m1", <<2>>), <<STL, STD>>),
      Leaf(STL, 4, "semantic_distance"),
      Leaf(STD, 4, "score_agreement")>>

Structures ==
    {v \in {TwoLeaves, TwoLeavesTrueFirst, SingleGrowth, ScoreLeaves,
             ExpressionRoot, OneTarget, RootLoop, SelfLoop, SkewedStages,
             GhostDefault, NoChildren, NestedScores, GhostBelow} :
        Accepted(v)}

-----------------------------------------------------------------------------
(* Specification SpecConstruct: one construction ThresholdStructure(nodes=...) *)

MaxNodes == 2

\* rule and children_ids of a requested node: a leaf, a leaf given a child,
\* range rules with good, self-referring, unknown, too few and omitted
\* children, and a pattern rule with its pattern's child
RequestShapes ==
    {[split_rule |-> NoRule, children_ids |-> <<>>, children_supplied |-> TRUE],
     [split_rule |-> NoRule, children_ids |-> <<ST>>, children_supplied |-> TRUE],
     [split_rule |-> RangeSplitRule("m1", <<1>>), children_ids |-> <<ST, ST>>,
      children_supplied |-> TRUE],
     [split_rule |-> RangeSplitRule("m1", <<1>>), children_ids |-> <<R, ST>>,
      children_supplied |-> TRUE],
     [split_rule |-> RangeSplitRule("m1", <<1>>), children_ids |-> <<ST, SF>>,
      children_supplied |-> TRUE],
     [split_rule |-> RangeSplitRule("m1", <<1>>), children_ids |-> <<ST>>,
      children_supplied |-> TRUE],
     [split_rule |-> RangeSplitRule("m1", <<1>>), children_ids |-> <<>>,
      children_supplied |-> FALSE],
     [split_rule |-> PatternSplitRule([m \in {"m1"} |-> OnlyThreshold(1)],
                                      <<Pattern([m \in {"m1"} |-> "high"], ST)>>,
                                      NoId),
      children_ids |-> <<ST>>, children_supplied |-> TRUE]}

RequestNodes ==
    {[id |-> id, stage |-> stage,
      category |-> IF stage = 0 THEN "root" ELSE "feature_splitting",
      parent_path |-> PathOfLength(n),
      split_rule |-> shape.split_rule, children_ids |-> shape.children_ids,
      children_supplied |-> shape.children_supplied] :
        id \in {R, ST}, stage \in {0, 1}, n \in {0, 1}, shape \in RequestShapes}

Requests == SeqsUpTo(RequestNodes, MaxNodes)

InitConstruct ==
    /\ pc = "construct"
    /\ request \in Requests
    /\ structure = <<>>
    /\ feature_row = Nothing
    /\ current_node = NoId
    /\ path = <<>>
    /\ stage_nodes = <<>>
    /\ parent_path = <<>>
    /\ forced = FALSE
    /\ final_node_id = NoId
    /\ previous = NoResult
    /\ IdleEval
    /\ IdleTable
    /\ IdleService

\* ThresholdStructure(nodes=request): the validators of every node, then
\* validate_structure; a ValidationError leaves no structure
Construct ==
    /\ pc = "construct"
    /\ IF Accepted(request)
       THEN structure' = request /\ pc' = "accepted"
       ELSE structure' = <<>> /\ pc' = "ValidationError"
    /\ UNCHANGED <<serviceVars, feature_row, request, evalVars, walkVars, tableVars>>

NextConstruct == Construct

SpecConstruct == InitConstruct /\ [][NextConstruct]_vars

-----------------------------------------------------------------------------
(* Properties of the construction, under SpecConstruct *)

Constructed == pc \in {"accepted", "ValidationError"}

C11_Roots == {i \in 1..Len(request) : request[i].stage = 0}

\* C11: the construction of a ThresholdStructure fails whenever the number
\* of nodes with stage 0 is not exactly one.
C11_ExactlyOneRoot ==
    (Constructed /\ Cardinality(C11_Roots) # 1) =>
        pc = "ValidationError" /\ structure = <<>>

\* C11 witness: a request rejected for its two stage-0 nodes alone
C11_Witness ==
    /\ pc = "ValidationError"
    /\ Cardinality(C11_Roots) = 2
    /\ \A i \in 1..Len(request) : ValidNode(request[i])
    /\ children_exist(request)
    /\ parent_paths_match(request)

C12_Ids(v) == {v[j].id : j \in 1..Len(v)}

\* the child the evaluator selects at the node for the row, None if it raises
C12_Chosen(node, row) ==
    IF evaluate(row, node.split_rule, node.children_ids).raised = ""
    THEN evaluate(row, node.split_rule, node.children_ids).child_id
    ELSE NoId

\* C12: the construction fails whenever some node's children_ids holds an id
\* that is the id of no node; hence in an accepted structure a child id an
\* evaluator takes from a node's children_ids is the id of a node.
C12_ChildrenResolve ==
    /\ (Constructed
         /\ \E i \in 1..Len(request) : \E c \in 1..Len(request[i].children_ids) :
               request[i].children_ids[c] \notin C12_Ids(request)) =>
          pc = "ValidationError" /\ structure = <<>>
    /\ pc = "accepted" =>
          \A i \in 1..Len(structure) : \A row \in EvalRows :
              (/\ structure[i].split_rule.type # "none"
               /\ Contains(structure[i].children_ids, C12_Chosen(structure[i], row))) =>
                  C12_Chosen(structure[i], row) \in DOMAIN nodes_by_id(structure)

\* C12 witness: a request rejected only for a second child that is no node
C12_Witness ==
    /\ pc = "ValidationError"
    /\ \E i \in 1..Len(request) :
          /\ Len(request[i].children_ids) = 2
          /\ request[i].children_ids[1] \in C12_Ids(request)
          /\ request[i].children_ids[2] \notin C12_Ids(request)
    /\ \A i \in 1..Len(request) : ValidNode(request[i])
    /\ one_root(request)
    /\ parent_paths_match(request)

\* C13: in every accepted structure the parent_path of every node, the root
\* included, has as many entries as the node's stage.
C13_ParentPathLength ==
    pc = "accepted" =>
        \A i \in 1..Len(structure) :
            Len(structure[i].parent_path) = structure[i].stage

\* C14: in every accepted node children_ids is empty exactly when the node
\* has no split rule, a range rule has len(thresholds) + 1 children, and the
\* child ids of a pattern or expression rule, its default included, are
\* among children_ids.
C14_ChildrenMatchRule ==
    pc = "accepted" =>
        \A i \in 1..Len(structure) :
            LET node == structure[i]
                rule == node.split_rule
            IN  /\ (node.children_ids = <<>>) <=> (rule.type = "none")
                /\ rule.type = "range" =>
                      Len(node.children_ids) = Len(rule.thresholds) + 1
                /\ rule.type = "pattern" =>
                      /\ \A k \in 1..Len(rule.patterns) :
                            Contains(node.children_ids, rule.patterns[k].child_id)
                      /\ rule.default_child_id # NoId =>
                            Contains(node.children_ids, rule.default_child_id)
                /\ rule.type = "expression" =>
                      /\ \A k \in 1..Len(rule.branches) :
                            Contains(node.children_ids, rule.branches[k].child_id)
                      /\ Contains(node.children_ids, rule.default_child_id)

\* C15: in an accepted structure no two nodes have the same id, so
\* get_node_by_id and the id -> node table of classify_features give the
\* same node for every id.
C15_UniqueIds ==
    pc = "accepted" =>
        /\ \A i, j \in 1..Len(structure) :
              structure[i].id = structure[j].id => i = j
        /\ \A id \in C12_Ids(structure) :
              get_node_by_id(structure, id) = nodes_by_id(structure)[id]

-----------------------------------------------------------------------------
(* Specification SpecWalk: one call of _classify_single_feature *)

MaxSteps == 6

WalkState ==
    [current_node |-> current_node, path |-> path, stage_nodes |-> stage_nodes,
     parent_path |-> parent_path, forced |-> forced, done |-> FALSE, raised |-> ""]

InitWalk ==
    /\ structure \in Structures
    /\ feature_row \in EvalRows
    /\ pc = "loop"
    /\ current_node = walk_init(get_root(structure)).current_node
    /\ path = walk_init(get_root(structure)).path
    /\ stage_nodes = walk_init(get_root(structure)).stage_nodes
    /\ parent_path = walk_init(get_root(structure)).parent_path
    /\ forced = FALSE
    /\ final_node_id = NoId
    /\ previous = NoResult
    /\ request = structure
    /\ IdleEval
    /\ IdleTable
    /\ IdleService

\* one iteration of the while loop (lines 146-171)
Iterate ==
    /\ pc = "loop"
    /\ current_node.split_rule.type # "none"
    /\ Len(parent_path) < MaxSteps
    /\ LET w == walk_step(WalkState, feature_row, nodes_by_id(structure))
       IN  /\ current_node' = w.current_node
           /\ path' = w.path
           /\ stage_nodes' = w.stage_nodes
           /\ parent_path' = w.parent_path
           /\ forced' = w.forced
           /\ pc' = IF w.raised # "" THEN "raised"
                    ELSE IF w.done THEN "break" ELSE "loop"
    /\ UNCHANGED <<serviceVars, feature_row, request, structure, final_node_id, previous,
                   evalVars, tableVars>>

\* the loop ends and the result is returned (lines 173-178)
Return ==
    /\ \/ pc = "break"
       \/ pc = "loop" /\ current_node.split_rule.type = "none"
    /\ final_node_id' = current_node.id
    /\ pc' = "returned"
    /\ UNCHANGED <<serviceVars, feature_row, request, structure, current_node, path, stage_nodes,
                   parent_path, forced, previous, evalVars, tableVars>>

\* what the call hands to its caller: the returned dict (lines 173-178), or
\* the exception that left it
invocation_result ==
    IF pc = "returned"
    THEN [outcome |-> "returned", final_node_id |-> final_node_id, path |-> path,
          stage_nodes |-> stage_nodes, parent_path |-> parent_path]
    ELSE [outcome |-> pc]

\* _classify_single_feature is called once more on the same engine, row,
\* root and nodes_by_id
CallAgain ==
    /\ pc \in {"returned", "raised"}
    /\ previous = NoResult
    /\ previous' = invocation_result
    /\ \E w \in {call_locals(get_root(structure), WalkState)} :
          /\ current_node' = w.current_node
          /\ path' = w.path
          /\ stage_nodes' = w.stage_nodes
          /\ parent_path' = w.parent_path
          /\ forced' = w.forced
    /\ final_node_id' = NoId
    /\ pc' = "loop"
    /\ UNCHANGED <<serviceVars, feature_row, request, structure, evalVars, tableVars>>

NextWalk == Iterate \/ Return \/ CallAgain

SpecWalk == InitWalk /\ [][NextWalk]_vars

-----------------------------------------------------------------------------
(* Properties of the traversal, under SpecWalk *)

\* C5: for every accepted structure and row the traversal ends after at
\* most as many steps as the structure has nodes.
C5_Terminates ==
    Len(parent_path) <= Len(structure)

\* the node the table built from the structure gives an id
C6_Node(id) == nodes_by_id(structure)[id]

\* C6: the recorded path starts with the root id, each following element is
\* the child the evaluator selects at the preceding element for the row,
\* final_node_id is the last path element, and unless the traversal was
\* forced to stop that node is a leaf.
C6_PathFollowsEvaluator ==
    /\ path[1] = get_root(structure).id
    /\ \A i \in 1..(Len(path) - 1) :
          path[i + 1] = evaluate(feature_row, C6_Node(path[i]).split_rule,
                                 C6_Node(path[i]).children_ids).child_id
    /\ pc = "returned" =>
          /\ final_node_id = path[Len(path)]
          /\ ~forced => C6_Node(final_node_id).split_rule = NoRule

\* C6 witness: a walk over two splits has returned at a leaf
C6_Witness ==
    /\ pc = "returned"
    /\ Len(path) = 3
    /\ ~forced
    /\ C6_Node(final_node_id).split_rule = NoRule
    /\ \E i \in 1..Len(structure) : structure[i].children_ids # <<>> /\
          structure[i].children_ids[1] # path[2] /\ structure[i].id = path[1]

\* C18: a second invocation of _classify_single_feature for the same row
\* and structure ends as the first did: the same final_node_id, path and
\* parent_path (parent ids, branch indices, rule traces, triggering values)
\* are returned, or the same exception leaves it.
C18_SameResult ==
    (previous # NoResult /\ pc \in {"returned", "raised"}) =>
        invocation_result = previous

\* C18 witness: both invocations returned after two or more steps
C18_Witness ==
    /\ previous # NoResult
    /\ pc = "returned"
    /\ previous.outcome = "returned"
    /\ Len(previous.parent_path) >= 2
    /\ Len(parent_path) >= 2

\* the entry children_ids[branch_index] of the node names the child id
C22_Names(node, branch_index, child_id) ==
    /\ branch_index \in 0..(Len(node.children_ids) - 1)
    /\ At(node.children_ids, branch_index) = child_id

\* C22: for every accepted node and every row, the result of the evaluator
\* satisfies children_ids[branch_index] = child_id, for a selected range,
\* pattern or branch as for the default: every parent_path entry recorded
\* from a result holds the index at which the node lists the selected child.
C22_BranchIndexNamesChild ==
    \A i \in 1..Len(parent_path) :
        C22_Names(C6_Node(parent_path[i].parent_id),
                  parent_path[i].branch_index,
                  evaluate(feature_row,
                           C6_Node(parent_path[i].parent_id).split_rule,
                           C6_Node(parent_path[i].parent_id).children_ids).child_id)

\* the same for the nodes whose children_ids was supplied
C22_SuppliedChildren ==
    \A i \in 1..Len(parent_path) :
        C6_Node(parent_path[i].parent_id).children_supplied =>
            C22_Names(C6_Node(parent_path[i].parent_id),
                      parent_path[i].branch_index,
                      evaluate(feature_row,
                               C6_Node(parent_path[i].parent_id).split_rule,
                               C6_Node(parent_path[i].parent_id).children_ids).child_id)

-----------------------------------------------------------------------------
(* ClassificationEngine.classify_features (classification.py) *)

\* _classify_single_feature run to its return; done stays FALSE when the
\* loop has not ended after fuel steps
RECURSIVE run_walk(_, _, _, _)
run_walk(w, row, by_id, fuel) ==
    IF w.done \/ fuel = 0 THEN w
    ELSE run_walk(walk_step(w, row, by_id), row, by_id, fuel - 1)

\* lines 173-178: the dict returned; returned is FALSE while the loop has
\* not ended and when an exception has left the call
path_info_of(w) ==
    [returned |-> w.done /\ w.raised = "",
     done |-> w.done,
     final_node_id |-> w.current_node.id,
     path |-> w.path,
     stage_nodes |-> w.stage_nodes,
     parent_path |-> w.parent_path]

_classify_single_feature(row, root, by_id, fuel) ==
    path_info_of(run_walk(walk_init(root), row, by_id, fuel))

\* lines 97-102
classification_record(feature_id, path_info) ==
    [feature_id |-> feature_id,
     returned |-> path_info.returned,
     done |-> path_info.done,
     final_node_id |-> path_info.final_node_id,
     classification_path |-> path_info.path,
     stage_nodes |-> path_info.stage_nodes]

\* lines 86-102: one classification record per row of df, in row order
feature_classifications(table, v, fuel) ==
    [i \in 1..Len(table) |->
        classification_record(table[i]["feature_id"],
            _classify_single_feature(table[i], get_root(v), nodes_by_id(v), fuel))]

\* a row of the joined table: the columns of the df row and the
\* classification columns of the matching classification record
JoinedRow(left, right) ==
    [row |-> left,
     feature_id |-> left["feature_id"],
     final_node_id |-> right.final_node_id,
     classification_path |-> right.classification_path,
     stage_nodes |-> right.stage_nodes]

RECURSIVE Concat(_)
Concat(seqs) == IF seqs = <<>> THEN <<>> ELSE Head(seqs) \o Concat(Tail(seqs))

\* lines 114-118: df.join(classification_df, on=feature_id, how='left'):
\* every row of df with every classification record of the same feature_id
left_join(left, right) ==
    Concat([i \in 1..Len(left) |->
               LET same(r) == r.feature_id = left[i]["feature_id"]
                   hits == SelectSeq(right, same)
               IN  [j \in 1..Len(hits) |-> JoinedRow(left[i], hits[j])]])

\* lines 104-123: the join, when every call of _classify_single_feature
\* has returned; the exception of the first call that raises leaves
\* classify_features; a call whose loop does not end keeps it from returning
joined(table, records) ==
    IF \A i \in 1..Len(records) : records[i].returned
    THEN [outcome |-> "returned", df |-> left_join(table, records)]
    ELSE [outcome |-> IF records[CHOOSE i \in 1..Len(records) :
                                    /\ ~records[i].returned
                                    /\ \A j \in 1..(i - 1) : records[j].returned].done
                      THEN "raised" ELSE "running",
          df |-> <<>>]

classify_features(table, v, fuel) ==
    joined(table, feature_classifications(table, v, fuel))

-----------------------------------------------------------------------------
(* ClassificationEngine.build_sankey_data: counting (classification.py) *)

\* _aggregate_node_id on the ids above: a '1_of_3_high_fuzz',
\* '1_of_3_high_sim' or '1_of_3_high_det' part is rewritten to '1_of_3_high'
_aggregate_node_id(node_id) ==
    IF node_id \in {STF, STS, STD} THEN ST1 ELSE node_id

\* the stage columns of the classified table: the keys of the stage_nodes
\* dicts of the classification records; a row holds null in a column its
\* record has no key for
columns(table) == UNION {DOMAIN table[i].stage_nodes : i \in 1..Len(table)}

\* pl.col(stage_col).is_not_null()
is_not_null(r, stage) == stage \in DOMAIN r.stage_nodes

\* a count of the rows of a group, as group_by(...).count() gives it
row_count(group) == Len(group)

\* pl.col(COL_FEATURE_ID).n_unique() on the rows of a group
n_unique(group) == Cardinality({group[i].feature_id : i \in 1..Len(group)})

\* max(node.stage for node in threshold_structure.nodes)
max_stage(v) ==
    CHOOSE s \in {v[i].stage : i \in 1..Len(v)} :
        \A i \in 1..Len(v) : v[i].stage <= s

\* lines 511-523: the groups of one stage column and their unique counts
stage_data(table, stage) ==
    LET rows == SelectSeq(table, LAMBDA r : is_not_null(r, stage))
        ids == {_aggregate_node_id(rows[i].stage_nodes[stage]) : i \in 1..Len(rows)}
    IN  [aggregated_id \in ids |->
            n_unique(SelectSeq(rows, LAMBDA r :
                _aggregate_node_id(r.stage_nodes[stage]) = aggregated_id))]

\* lines 525-528: an id already counted at a lower stage keeps its count
keep_first(aggregated_counts, data) ==
    [id \in DOMAIN aggregated_counts \cup (DOMAIN data \ {""}) |->
        IF id \in DOMAIN aggregated_counts THEN aggregated_counts[id] ELSE data[id]]

RECURSIVE count_stages(_, _, _, _)
count_stages(table, stage, last, aggregated_counts) ==
    IF stage > last THEN aggregated_counts
    ELSE count_stages(table, stage + 1, last,
             IF stage \in columns(table)
             THEN keep_first(aggregated_counts, stage_data(table, stage))
             ELSE aggregated_counts)

_count_unique_features_per_aggregated_node(table, v) ==
    count_stages(table, 0, max_stage(v), <<>>)

\* lines 552-571: the groups of one pair of adjacent stage columns
link_data(table, stage) ==
    LET rows == SelectSeq(table, LAMBDA r :
                    is_not_null(r, stage) /\ is_not_null(r, stage + 1))
        pair(r) == <<_aggregate_node_id(r.stage_nodes[stage]),
                     _aggregate_node_id(r.stage_nodes[stage + 1])>>
    IN  [p \in {pair(rows[i]) : i \in 1..Len(rows)} |->
            n_unique(SelectSeq(rows, LAMBDA r : pair(r) = p))]

\* the string order of the ids above
IdOrder == <<R, SF, ST, ST1, STD, STF, STS, STA, STH, STL>>

IdRank(id) == CHOOSE k \in 1..Len(IdOrder) : IdOrder[k] = id

\* a < b on tuples of integers
LexLess(a, b) ==
    \E i \in 1..Len(a) : a[i] < b[i] /\ \A j \in 1..(i - 1) : a[j] = b[j]

\* sorted(seq, key=...): keys[i] is the key of seq[i]; equal keys keep
\* their order
sorted(seq, keys) ==
    LET before(j, i) == LexLess(keys[j], keys[i]) \/ (keys[j] = keys[i] /\ j < i)
        position(i) == 1 + Cardinality({j \in 1..Len(seq) : before(j, i)})
    IN  [p \in 1..Len(seq) |-> seq[CHOOSE i \in 1..Len(seq) : position(i) = p]]

\* the groups of a group_by in an order it may deliver them: by id order,
\* ascending or descending
delivered(groups, descending) ==
    LET pairs == [p \in 1..Cardinality(groups) |->
                     CHOOSE g \in groups :
                         Cardinality({h \in groups :
                             LexLess(<<IdRank(h[1]), IdRank(h[2])>>,
                                     <<IdRank(g[1]), IdRank(g[2])>>)}) = p - 1]
    IN  IF descending THEN [p \in 1..Len(pairs) |-> pairs[Len(pairs) + 1 - p]]
        ELSE pairs

\* lines 573-578: the link dict, in insertion order; a pair counted again at
\* a later stage takes the later count
RECURSIVE put_links(_, _, _)
put_links(aggregated_link_counts, order, data) ==
    IF order = <<>> THEN aggregated_link_counts
    ELSE LET p == Head(order)
             held == {i \in 1..Len(aggregated_link_counts) :
                         /\ aggregated_link_counts[i].source = p[1]
                         /\ aggregated_link_counts[i].target = p[2]}
             next == IF p[1] = "" \/ p[2] = "" THEN aggregated_link_counts
                     ELSE IF held # {}
                     THEN [i \in 1..Len(aggregated_link_counts) |->
                              IF i \in held
                              THEN [aggregated_link_counts[i] EXCEPT !.value = data[p]]
                              ELSE aggregated_link_counts[i]]
                     ELSE Append(aggregated_link_counts,
                                 [source |-> p[1], target |-> p[2], value |-> data[p]])
         IN  put_links(next, Tail(order), data)

RECURSIVE link_stages(_, _, _, _, _)
link_stages(table, stage, last, aggregated_link_counts, descending) ==
    IF stage >= last THEN aggregated_link_counts
    ELSE link_stages(table, stage + 1, last,
             IF stage \in columns(table) /\ (stage + 1) \in columns(table)
             THEN put_links(aggregated_link_counts,
                            delivered(DOMAIN link_data(table, stage), descending),
                            link_data(table, stage))
             ELSE aggregated_link_counts,
             descending)

_count_aggregated_links(table, v, descending) ==
    link_stages(table, 0, max_stage(v), <<>>, descending)

-----------------------------------------------------------------------------
(* ClassificationEngine.build_sankey_data: nodes, links, order *)

\* node_id.split('_') on the ids above
Parts(node_id) ==
    CASE node_id = R -> {"root"}
      [] node_id = SF -> {"split", "false"}
      [] node_id = ST -> {"split", "true"}
      [] node_id = STL -> {"split", "true", "semdist", "low"}
      [] node_id = STH -> {"split", "true", "semdist", "high"}
      [] node_id = STF -> {"split", "true", "1", "of", "3", "high", "fuzz"}
      [] node_id = STS -> {"split", "true", "1", "of", "3", "high", "sim"}
      [] node_id = STD -> {"split", "true", "1", "of", "3", "high", "det"}
      [] node_id = ST1 -> {"split", "true", "1", "of", "3", "high"}
      [] node_id = STA -> {"split", "true", "all", "3", "low"}

\* the ids above in which re.search finds all_N_high, K_of_N_high, all_N_low
AllHigh == {}
KOfNHigh == {STF, STS, STD, ST1}
AllLow == {STA}

category_names(category) ==
    CASE category = "root" -> "All Features"
      [] category = "feature_splitting" -> "Feature Splitting"
      [] category = "semantic_distance" -> "Semantic Distance"
      [] category = "score_agreement" -> "Score Agreement"
      [] OTHER -> category

\* _get_node_display_name: <<base_name, suffix>> stands for base_name + suffix
_get_node_display_name(node) ==
    LET display_id == _aggregate_node_id(node.id)
        base_name == category_names(node.category)
        parts == Parts(display_id)
    IN  IF display_id = "root" THEN <<base_name, "">>
        ELSE CASE node.category = "feature_splitting" ->
                      IF "true" \in parts THEN <<base_name, ": True">>
                      ELSE IF "false" \in parts THEN <<base_name, ": False">>
                      ELSE <<base_name, "">>
               [] node.category = "semantic_distance" ->
                      IF "high" \in parts THEN <<base_name, ": High">>
                      ELSE IF "low" \in parts THEN <<base_name, ": Low">>
                      ELSE <<base_name, "">>
               [] node.category = "score_agreement" ->
                      IF display_id \in AllHigh THEN <<base_name, ": All High">>
                      ELSE IF display_id \in AllLow THEN <<base_name, ": All Low">>
                      ELSE IF display_id \in KOfNHigh THEN <<base_name, ": 1 of 3 High">>
                      ELSE <<base_name, "">>
               [] OTHER -> <<base_name, "">>

\* lines 202-221: the first declared node of each aggregated id that has
\* features or stage 0
RECURSIVE aggregated_nodes(_, _, _, _)
aggregated_nodes(v, i, aggregated_node_counts, acc) ==
    IF i > Len(v) THEN acc
    ELSE LET node == v[i]
             aggregated_id == _aggregate_node_id(node.id)
             count == IF aggregated_id \in DOMAIN aggregated_node_counts
                      THEN aggregated_node_counts[aggregated_id] ELSE 0
         IN  aggregated_nodes(v, i + 1, aggregated_node_counts,
                 IF count = 0 /\ node.stage > 0 THEN acc
                 ELSE IF \E k \in 1..Len(acc) : acc[k].id = aggregated_id THEN acc
                 ELSE Append(acc, [id |-> aggregated_id,
                                   name |-> _get_node_display_name(node),
                                   stage |-> node.stage,
                                   feature_count |-> count,
                                   category |-> node.category]))

\* _extract_parent_id on the ids above
_extract_parent_id(node_id) ==
    IF node_id = "root" THEN ""
    ELSE IF node_id \in AllHigh \cup AllLow \cup KOfNHigh THEN ST
    ELSE IF "semdist" \in Parts(node_id) THEN ST
    ELSE ""

\* _get_parent_position: a 0-based index in all_nodes
_get_parent_position(parent_id, all_nodes) ==
    IF parent_id = "" THEN 0
    ELSE IF \E i \in 1..Len(all_nodes) : all_nodes[i].id = parent_id
    THEN (CHOOSE i \in 1..Len(all_nodes) :
              /\ all_nodes[i].id = parent_id
              /\ \A j \in 1..(i - 1) : all_nodes[j].id # parent_id) - 1
    ELSE 999999

\* _get_category_sort_priority, times 3 (1 - 1/3 is 2 here)
_get_category_sort_priority(node_id, category) ==
    CASE category = "root" -> 0
      [] category = "feature_splitting" ->
            IF "false" \in Parts(node_id) THEN 0
            ELSE IF "true" \in Parts(node_id) THEN 3 ELSE 2997
      [] category = "semantic_distance" ->
            IF "low" \in Parts(node_id) THEN 0
            ELSE IF "high" \in Parts(node_id) THEN 3 ELSE 2997
      [] category = "score_agreement" ->
            IF node_id \in AllHigh THEN 0
            ELSE IF node_id \in KOfNHigh THEN 2
            ELSE IF node_id \in AllLow THEN 2997 ELSE 1500
      [] OTHER -> 0

_get_node_sort_key_stage_only(node, all_nodes, mode) ==
    <<node.stage, 0, 0, 0>>

\* lines 265-281: (stage, parent_position, sort_priority, node_id)
_get_node_sort_key(node, all_nodes, mode) ==
    <<node.stage,
      IF mode = "within_parent"
      THEN _get_parent_position(_extract_parent_id(node.id), all_nodes) ELSE 0,
      _get_category_sort_priority(node.id, node.category),
      IdRank(node.id)>>

node_position_by_name(id, sorted_nodes) ==
    IF \E i \in 1..Len(sorted_nodes) : sorted_nodes[i].name = id
    THEN (CHOOSE i \in 1..Len(sorted_nodes) : sorted_nodes[i].name = id) - 1
    ELSE 999999

\* node_positions.get(id, 999999)
node_position(id, sorted_nodes) ==
    IF \E i \in 1..Len(sorted_nodes) : sorted_nodes[i].id = id
    THEN (CHOOSE i \in 1..Len(sorted_nodes) :
              /\ sorted_nodes[i].id = id
              /\ \A j \in (i + 1)..Len(sorted_nodes) : sorted_nodes[j].id # id) - 1
    ELSE 999999

_sort_links_as_delivered(links_, sorted_nodes) == links_

\* lines 452-458: sorted by (source position, target position)
_sort_links_to_match_nodes(links_, sorted_nodes) ==
    sorted(links_, [i \in 1..Len(links_) |->
                       <<node_position(links_[i].source, sorted_nodes),
                         node_position(links_[i].target, sorted_nodes)>>])

emit_link_above_one(count) == count > 1

\* line 226: the pairs that become links
emit_link(count) == count > 0

build_sankey_data(table, v, mode, descending) ==
    LET aggregated_node_counts == _count_unique_features_per_aggregated_node(table, v)
        aggregated_link_counts == _count_aggregated_links(table, v, descending)
        unsorted == aggregated_nodes(v, 1, aggregated_node_counts, <<>>)
        emitted == SelectSeq(aggregated_link_counts, LAMBDA l : emit_link(l.value))
        sorted_nodes == sorted(unsorted,
                            [i \in 1..Len(unsorted) |->
                                _get_node_sort_key(unsorted[i], unsorted, mode)])
    IN  [nodes |-> sorted_nodes,
         links |-> _sort_links_to_match_nodes(emitted, sorted_nodes)]

-----------------------------------------------------------------------------
(* Specification SpecTable: classify_features, then build_sankey_data *)

MaxRows == 2

FeatureIds == {1, 2}

\* the metric columns of a table row
TableValues ==
    {[m \in Metrics |-> IF m = "m1" THEN ab[1] ELSE ab[2]] :
        ab \in {<<0, 0>>, <<1, 0>>, <<1, 1>>, <<2, 0>>, <<2, 1>>}}

\* the table holds one or more rows per feature (one per explainer and
\* scorer); feature ids being interchangeable, the first row is feature 1's
Tables ==
    {table \in SeqsUpTo({Row(feature_id, values) : feature_id \in FeatureIds,
                                                   values \in TableValues}, MaxRows) :
        table[1]["feature_id"] = 1}

InitTable ==
    /\ structure \in Structures
    /\ df \in Tables
    /\ pc = "start"
    /\ classified_df = <<>>
    /\ nodes = <<>>
    /\ links = <<>>
    /\ feature_row = Nothing
    /\ current_node = NoId
    /\ path = <<>>
    /\ stage_nodes = <<>>
    /\ parent_path = <<>>
    /\ forced = FALSE
    /\ final_node_id = NoId
    /\ previous = NoResult
    /\ request = structure
    /\ sort_mode \in SortModes
    /\ IdleEval
    /\ IdleService

threshold_structure_after_sort(v) ==
    [i \in 1..Len(v) |-> v[Len(v) + 1 - i]]

\* the nodes of the threshold_structure argument when classify_features or
\* build_sankey_data returns: the calls read the nodes (lines 75-78, 202,
\* 503, 543); every append and every sorted() acts on a list of their own
threshold_structure_after(v) == v

\* classify_features: every row is classified, then the table is joined
\* with the classifications
ClassifyFeatures ==
    /\ pc = "start"
    /\ \E result \in {classify_features(df, structure, MaxSteps)} :
          /\ result.outcome # "running"
          /\ classified_df' = result.df
          /\ pc' = IF result.outcome = "returned" THEN "classified" ELSE "raised"
    /\ structure' = threshold_structure_after(structure)
    /\ UNCHANGED <<serviceVars, df, nodes, links, sort_mode, feature_row, request, evalVars, walkVars>>

\* build_sankey_data on the classified table
BuildSankey ==
    /\ pc = "classified"
    /\ \E descending \in BOOLEAN :
          LET data == build_sankey_data(classified_df, structure, sort_mode, descending)
          IN  /\ nodes' = data.nodes
              /\ links' = data.links
    /\ pc' = "built"
    /\ structure' = threshold_structure_after(structure)
    /\ UNCHANGED <<serviceVars, df, classified_df, sort_mode, feature_row, request, evalVars, walkVars>>

NextTable == ClassifyFeatures \/ BuildSankey

SpecTable == InitTable /\ [][NextTable]_vars

-----------------------------------------------------------------------------
(* Properties of classify_features and build_sankey_data, under SpecTable *)

Classified == pc \in {"classified", "built"}

\* the classification of one row, computed from that row alone
C7_Own(row) ==
    _classify_single_feature(row, get_root(structure), nodes_by_id(structure), MaxSteps)

\* C7: classify_features yields exactly one result per input row, and the
\* classification attached to a row is the one computed from that row's own
\* values, also when several rows share a feature_id.
C7_OneResultPerRow ==
    Classified =>
        /\ Len(classified_df) = Len(df)
        /\ \A i \in 1..Len(df) :
              /\ classified_df[i].row = df[i]
              /\ classified_df[i].final_node_id = C7_Own(df[i]).final_node_id
              /\ classified_df[i].classification_path = C7_Own(df[i]).path
              /\ classified_df[i].stage_nodes = C7_Own(df[i]).stage_nodes

\* the feature ids with a row whose path holds the node id
C8_Reached(id) ==
    {classified_df[i].feature_id :
        i \in {i \in 1..Len(classified_df) :
                  \E k \in 1..Len(classified_df[i].classification_path) :
                      classified_df[i].classification_path[k] = id}}

\* C8 as claimed: every returned node carries the number of distinct
\* feature ids that reached that node, and the returned nodes are the root
\* and the non-root nodes of the structure with a count above zero.
C8_NodeCounts ==
    pc = "built" =>
        /\ \A k \in 1..Len(nodes) :
              nodes[k].feature_count = Cardinality(C8_Reached(nodes[k].id))
        /\ {nodes[k].id : k \in 1..Len(nodes)} =
              {get_root(structure).id} \cup
              {structure[i].id : i \in {i \in 1..Len(structure) :
                                           C8_Reached(structure[i].id) # {}}}

\* the feature ids with a row whose column of the stage holds an id that
\* aggregates to a
C8_Recorded(a, stage) ==
    {classified_df[i].feature_id :
        i \in {i \in 1..Len(classified_df) :
                  /\ stage \in DOMAIN classified_df[i].stage_nodes
                  /\ _aggregate_node_id(classified_df[i].stage_nodes[stage]) = a}}

C8_Stages == 0..max_stage(structure)

\* the count of an aggregated id: its features at the lowest stage whose
\* column holds it
C8_Count(a) ==
    IF \A stage \in C8_Stages : C8_Recorded(a, stage) = {} THEN 0
    ELSE Cardinality(C8_Recorded(a,
             CHOOSE stage \in C8_Stages :
                 /\ C8_Recorded(a, stage) # {}
                 /\ \A lower \in C8_Stages :
                       lower < stage => C8_Recorded(a, lower) = {}))

\* C8 as amended: counts and nodes are per aggregated id; an aggregated id
\* is returned, once, iff a node of the structure that aggregates to it has
\* stage 0 or the id has a count above zero, and its feature_count is the
\* number of distinct feature ids recorded under it.
C8_AggregatedNodeCounts ==
    pc = "built" =>
        /\ \A k \in 1..Len(nodes) :
              /\ nodes[k].feature_count = C8_Count(nodes[k].id)
              /\ \A j \in 1..Len(nodes) : nodes[j].id = nodes[k].id => j = k
        /\ {nodes[k].id : k \in 1..Len(nodes)} =
              {_aggregate_node_id(structure[i].id) :
                  i \in {i \in 1..Len(structure) :
                            \/ structure[i].stage = 0
                            \/ C8_Count(_aggregate_node_id(structure[i].id)) > 0}}

\* C8 witness: two features end at two different detailed nodes and are
\* returned as one node with count 2, and a feature with two rows at the
\* root counts once
C8_Witness ==
    /\ pc = "built"
    /\ \E i, j \in 1..Len(classified_df) :
          /\ classified_df[i].final_node_id = STF
          /\ classified_df[j].final_node_id = STS
    /\ \E k \in 1..Len(nodes) : nodes[k].id = ST1 /\ nodes[k].feature_count = 2

RECURSIVE C9_Sum(_)
C9_Sum(values) == IF values = <<>> THEN 0 ELSE Head(values) + C9_Sum(Tail(values))

\* the values of the links that leave the node id
C9_Outgoing(id) ==
    LET leaving == SelectSeq(links, LAMBDA l : l.source = id)
    IN  [k \in 1..Len(leaving) |-> leaving[k].value]

\* C9: for every returned node with an outgoing link, the values of its
\* outgoing links add up to the node's feature_count.
C9_Conservation ==
    pc = "built" =>
        \A k \in 1..Len(nodes) :
            C9_Outgoing(nodes[k].id) # <<>> =>
                C9_Sum(C9_Outgoing(nodes[k].id)) = nodes[k].feature_count

\* the rows whose columns of stage and stage + 1 hold the pair of
\* aggregated ids
C10_Rows(pair, stage) ==
    {i \in 1..Len(classified_df) :
        /\ stage \in DOMAIN classified_df[i].stage_nodes
        /\ (stage + 1) \in DOMAIN classified_df[i].stage_nodes
        /\ _aggregate_node_id(classified_df[i].stage_nodes[stage]) = pair[1]
        /\ _aggregate_node_id(classified_df[i].stage_nodes[stage + 1]) = pair[2]}

C10_Stages == 0..(max_stage(structure) - 1)

\* the pairs of aggregated ids some row holds in adjacent stage columns
C10_Pairs ==
    UNION {{<<_aggregate_node_id(classified_df[i].stage_nodes[stage]),
              _aggregate_node_id(classified_df[i].stage_nodes[stage + 1])>> :
               i \in {i \in 1..Len(classified_df) :
                         /\ stage \in DOMAIN classified_df[i].stage_nodes
                         /\ (stage + 1) \in DOMAIN classified_df[i].stage_nodes}} :
           stage \in C10_Stages}

\* the targets the features of a source reach at the next stage
C10_Targets(source) == {pair[2] : pair \in {p \in C10_Pairs : p[1] = source}}

\* the number of distinct feature ids on a pair, at the stage given
C10_Features(pair, stage) ==
    Cardinality({classified_df[i].feature_id : i \in C10_Rows(pair, stage)})

C10_LastStage(pair) ==
    CHOOSE stage \in C10_Stages :
        /\ C10_Rows(pair, stage) # {}
        /\ \A higher \in C10_Stages :
              higher > stage => C10_Rows(pair, higher) = {}

C16_Declared(id) ==
    CHOOSE i \in 1..Len(structure) :
        /\ _aggregate_node_id(structure[i].id) = id
        /\ \A j \in 1..(i - 1) : _aggregate_node_id(structure[j].id) # id

C16_Ids == {nodes[k].id : k \in 1..Len(nodes)}

C16_ParentPosition(id) ==
    IF sort_mode # "within_parent" \/ _extract_parent_id(id) = "" THEN 0
    ELSE IF _extract_parent_id(id) \notin C16_Ids THEN 999999
    ELSE Cardinality({other \in C16_Ids :
             C16_Declared(other) < C16_Declared(_extract_parent_id(id))})

C16_Key(node) ==
    <<node.stage, C16_ParentPosition(node.id),
      _get_category_sort_priority(node.id, node.category), IdRank(node.id)>>

C17_Position(id) == CHOOSE k \in 1..Len(nodes) : nodes[k].id = id

\* C17: the returned links are ordered by the position of their source in
\* the returned node list, links with the same source by the position of
\* their target in that list (both ends of a link being returned nodes).
C17_LinksFollowNodes ==
    pc = "built" =>
        /\ \A k \in 1..Len(links) :
              links[k].source \in C16_Ids /\ links[k].target \in C16_Ids
        /\ \A k, l \in 1..Len(links) :
              k < l =>
                  \/ C17_Position(links[k].source) < C17_Position(links[l].source)
                  \/ /\ links[k].source = links[l].source
                     /\ C17_Position(links[k].target) < C17_Position(links[l].target)

\* C17 witness: links of two sources, two of them from the same source, and
\* the group-by delivered them in another order than the returned one
C17_Witness ==
    /\ pc = "built"
    /\ \E k, l \in 1..Len(links) :
          k < l /\ links[k].source # links[l].source
    /\ \E k, l \in 1..Len(links) :
          k < l /\ links[k].source = links[l].source
    /\ \E d \in BOOLEAN :
          SelectSeq(_count_aggregated_links(classified_df, structure, d),
                    LAMBDA link : emit_link(link.value)) # links

\* C19: build_sankey_data returns the same node list and the same link
\* list, in the same order, whatever the order in which the group-by steps
\* deliver their groups: the returned lists are those of a call under either
\* delivery order.
C19_OrderIndependent ==
    pc = "built" =>
        \A descending \in BOOLEAN :
            /\ nodes = build_sankey_data(classified_df, structure, sort_mode,
                                         descending).nodes
            /\ links = build_sankey_data(classified_df, structure, sort_mode,
                                         descending).links

\* C19 witness: the two delivery orders hand the link counts over in
\* different orders, and three or more links were returned
C19_Witness ==
    /\ pc = "built"
    /\ Len(links) >= 3
    /\ _count_aggregated_links(classified_df, structure, TRUE)
          # _count_aggregated_links(classified_df, structure, FALSE)

\* the traversal of one row, run on its own
C23_Walk(row) ==
    run_walk(walk_init(get_root(structure)), row, nodes_by_id(structure), MaxSteps)

\* the rows of df whose traversal selects a child id that is no node
C23_Stalled ==
    {i \in 1..Len(df) :
        /\ C23_Walk(df[i]).current_node.split_rule.type # "none"
        /\ evaluate(df[i], C23_Walk(df[i]).current_node.split_rule,
                    C23_Walk(df[i]).current_node.children_ids).raised = ""
        /\ C12_Chosen(C23_Walk(df[i]).current_node, df[i])
              \notin DOMAIN nodes_by_id(structure)}

\* the feature ids that a single row of df carries
C23_Single ==
    {f \in FeatureIds : Cardinality({i \in 1..Len(df) : df[i]["feature_id"] = f}) = 1}

C24_StructureUnchanged ==
    pc \in {"classified", "raised", "built"} =>
        /\ Len(structure) = Len(request)
        /\ \A i \in 1..Len(structure) :
              /\ structure[i].id = request[i].id
              /\ structure[i].stage = request[i].stage
              /\ structure[i].category = request[i].category
              /\ structure[i].split_rule = request[i].split_rule
              /\ structure[i].children_ids = request[i].children_ids
              /\ structure[i].parent_path = request[i].parent_path

\* C24 witness: two rows were classified down to stage 2 and aggregated
C24_Witness ==
    /\ pc = "built"
    /\ Len(df) = 2
    /\ Len(structure) >= 5
    /\ \E k \in 1..Len(nodes) : nodes[k].stage = 2
    /\ Len(links) >= 2

-----------------------------------------------------------------------------
(* DataService and the Sankey endpoints (data_service.py, api/sankey.py,
   api/endpoints/sankey.py) *)

MaxCalls == 3

\* DataService.is_ready
is_ready(s) == s._ready /\ s._df_lazy # "None"

\* what a call on the service gives its caller: a value (raised = "") or an
\* exception with its message; read tells whether the data was read
ServiceResult(raised, message, read, total_features) ==
    [raised |-> raised, message |-> message, read |-> read,
     total_features |-> total_features]

initialize_ready_first(s, file_exists, cache_fails) ==
    IF ~file_exists
    THEN [service |-> s, raised |-> "FileNotFoundError"]
    ELSE IF cache_fails
    THEN [service |-> [s EXCEPT !._df_lazy = "frame", !._ready = TRUE],
          raised |-> "Exception"]
    ELSE [service |-> [_df_lazy |-> "frame", _filter_options_cache |-> "cached",
                       _ready |-> TRUE],
          raised |-> ""]

\* DataService.initialize: the master file is looked up, the lazy frame is
\* set, the filter options are cached, and only then _ready is set; an
\* exception leaves the fields as far as they were written
initialize(s, file_exists, cache_fails) ==
    IF ~file_exists
    THEN [service |-> s, raised |-> "FileNotFoundError"]
    ELSE IF cache_fails
    THEN [service |-> [s EXCEPT !._df_lazy = "frame"], raised |-> "Exception"]
    ELSE [service |-> [_df_lazy |-> "frame", _filter_options_cache |-> "cached",
                       _ready |-> TRUE],
          raised |-> ""]

\* DataService.cleanup
cleanup(s) ==
    [_df_lazy |-> "None", _filter_options_cache |-> "None", _ready |-> FALSE]

\* lines 124-125, 402-403, 605-606
not_ready == ServiceResult("RuntimeError", "DataService not ready", FALSE, 0)

\* the rest of a query once its rows are collected: it returns, or an
\* exception of the processing is logged and re-raised
processed(matching, fault) ==
    IF fault = "none" THEN ServiceResult("", "", TRUE, matching)
    ELSE ServiceResult(fault, "processing failed", TRUE, 0)

\* DataService.get_histogram_data
get_histogram_data(s, matching, fault) ==
    IF ~is_ready(s) THEN not_ready ELSE processed(matching, fault)

\* DataService.get_feature_data
get_feature_data(s, matching, fault) ==
    IF ~is_ready(s) THEN not_ready
    ELSE IF matching = 0
    THEN ServiceResult("ValueError", "Feature not found with specified parameters",
                       TRUE, 0)
    ELSE processed(matching, fault)

\* DataService.get_sankey_data (data_service.py): the rows are filtered and
\* collected; none left raises the no-data error, which the except clause
\* logs and re-raises
get_sankey_data(s, matching, fault) ==
    IF ~is_ready(s) THEN not_ready
    ELSE IF matching = 0
    THEN ServiceResult("ValueError", "No data available after applying filters",
                       TRUE, 0)
    ELSE processed(matching, fault)

\* get_sankey_data of the service main.py imports
\* (services/visualization_service.py), called by api/sankey.py with
\* filters, threshold_data and use_v2
visualization_get_sankey_data(s, matching, fault) ==
    IF ~is_ready(s) THEN not_ready
    ELSE IF matching = 0
    THEN ServiceResult("ValueError", "No data available after applying filters",
                       TRUE, 0)
    ELSE processed(matching, fault)

\* "No data available" in error_msg, on the messages above
has_no_data(message) == message = "No data available after applying filters"

HttpResponse(status, code, service_called) ==
    [status |-> status, code |-> code, service_called |-> service_called]

\* get_data_service (api/sankey.py, api/endpoints/sankey.py lines 11-25)
get_data_service(s) ==
    IF ~is_ready(s) THEN "503" ELSE "data_service"

sankey_response_invalid(result) ==
    CASE result.raised = "" -> HttpResponse(200, "OK", TRUE)
      [] result.raised = "ValueError" -> HttpResponse(400, "INVALID_REQUEST", TRUE)
      [] OTHER -> HttpResponse(500, "INTERNAL_ERROR", TRUE)

\* the try / except of the endpoint get_sankey_data (api/sankey.py lines
\* 80-128, api/endpoints/sankey.py lines 94-143)
sankey_response(result) ==
    CASE result.raised = "" -> HttpResponse(200, "OK", TRUE)
      [] result.raised = "ValueError" ->
            IF has_no_data(result.message)
            THEN HttpResponse(400, "INSUFFICIENT_DATA", TRUE)
            ELSE HttpResponse(400, "INVALID_REQUEST", TRUE)
      [] OTHER -> HttpResponse(500, "INTERNAL_ERROR", TRUE)

\* POST /sankey-data on one of the two routers
post_sankey_data(s, route, matching, fault) ==
    IF get_data_service(s) = "503"
    THEN HttpResponse(503, "SERVICE_UNAVAILABLE", FALSE)
    ELSE IF route = "api/endpoints/sankey.py"
    THEN sankey_response(get_sankey_data(s, matching, fault))
    ELSE sankey_response(visualization_get_sankey_data(s, matching, fault))

Routes == {"api/sankey.py", "api/endpoints/sankey.py"}
Methods == {"get_histogram_data", "get_sankey_data", "get_feature_data"}
Faults == {"none", "ValueError", "Exception"}

InitService ==
    /\ pc = "serving"
    /\ feature_row = Nothing
    /\ IdleWalk
    /\ IdleEval
    /\ IdleTable
    /\ IdleService

Called(initialized) ==
    [calls |-> history.calls + 1, initialized |-> initialized]

\* lifespan start-up or any later call of DataService.initialize
Initialize ==
    /\ pc = "serving"
    /\ history.calls < MaxCalls
    /\ \E file_exists \in BOOLEAN, cache_fails \in BOOLEAN :
         \E r \in {initialize(service, file_exists, cache_fails)} :
           /\ service' = r.service
           /\ response' = [call |-> "initialize", raised |-> r.raised]
           /\ history' = Called(history.initialized \/ r.raised = "")
    /\ UNCHANGED <<pc, feature_row, request, structure, evalVars, walkVars,
                   tableVars, traverser>>

\* lifespan shutdown
Cleanup ==
    /\ pc = "serving"
    /\ history.calls < MaxCalls
    /\ service' = cleanup(service)
    /\ response' = [call |-> "cleanup", raised |-> ""]
    /\ history' = Called(FALSE)
    /\ UNCHANGED <<pc, feature_row, request, structure, evalVars, walkVars,
                   tableVars, traverser>>

query(s, method, matching, fault) ==
    CASE method = "get_histogram_data" -> get_histogram_data(s, matching, fault)
      [] method = "get_feature_data" -> get_feature_data(s, matching, fault)
      [] OTHER -> get_sankey_data(s, matching, fault)

\* a direct call of one of the three query methods
Query ==
    /\ pc = "serving"
    /\ history.calls < MaxCalls
    /\ \E method \in Methods, matching \in 0..MaxRows, fault \in Faults :
         response' = [call |-> method, ready |-> is_ready(service),
                      matching |-> matching,
                      result |-> query(service, method, matching, fault)]
    /\ history' = Called(history.initialized)
    /\ UNCHANGED <<pc, feature_row, request, structure, evalVars, walkVars,
                   tableVars, service, traverser>>

\* POST /sankey-data
PostSankeyData ==
    /\ pc = "serving"
    /\ history.calls < MaxCalls
    /\ \E route \in Routes, matching \in 0..MaxRows, fault \in Faults :
         response' = [call |-> "POST /sankey-data", route |-> route,
                      ready |-> is_ready(service), matching |-> matching,
                      http |-> post_sankey_data(service, route, matching, fault)]
    /\ history' = Called(history.initialized)
    /\ UNCHANGED <<pc, feature_row, request, structure, evalVars, walkVars,
                   tableVars, service, traverser>>

NextService == Initialize \/ Cleanup \/ Query \/ PostSankeyData

SpecService == InitService /\ [][NextService]_vars

C30_ReadyIffInitialized ==
    /\ is_ready(service) <=> history.initialized
    /\ (response.call \in Methods /\ ~response.ready)
       => response.result = not_ready
    /\ (response.call \in Methods /\ response.ready)
       => response.result # not_ready
    /\ (response.call = "POST /sankey-data" /\ ~response.ready)
       => response.http = HttpResponse(503, "SERVICE_UNAVAILABLE", FALSE)

C30_Witness ==
    /\ service._df_lazy = "frame"
    /\ ~history.initialized
    /\ response.call \in Methods
    /\ ~response.ready
    /\ response.result.raised = "RuntimeError"

-----------------------------------------------------------------------------
(* The v1 threshold tree and its traverser (threshold_tree_utils.py) *)

NoMetric == "None"
\* split=None
NoSplit == [none |-> TRUE, thresholds |-> <<>>, children |-> <<>>]

\* ThresholdNode(id=..., metric=..., split={'thresholds': ..., 'children': ...})
\* as threshold_tree_utils.py and migration_utils.py build and read it
ThresholdNode(id, metric, split) == [id |-> id, metric |-> metric, split |-> split]

Split(thresholds, children) ==
    [none |-> FALSE, thresholds |-> thresholds, children |-> children]

ThresholdTree(root, metrics) == [root |-> root, metrics |-> metrics]

\* feature values in units of 10^-7; a threshold of 20 is 0.000002
TraverserValues == {14, 16, 24, 30}

\* the feature_values dictionaries handed to the traverser
FeatureValues == [{"m1"} -> TraverserValues] \cup {<<>>}

\* explicit paths handed to get_threshold_for_path (None becomes [])
TraverserPaths == {<<>>, <<"a">>}

LeafTree == ThresholdTree(ThresholdNode("root", "m1", NoSplit), {"m1"})

SplitTree ==
    ThresholdTree(
      ThresholdNode("root", "m1",
        Split(<<20>>, <<ThresholdNode("a", "m1", NoSplit),
                        ThresholdNode("b", NoMetric, NoSplit)>>)),
      {"m1"})

TraverserTrees == {LeafTree, SplitTree}

\* _traverse_node lines 71-85: the index of the child to follow
child_index_for(thresholds, feature_value) ==
    IF \E i \in 1..Len(thresholds) : feature_value < thresholds[i]
    THEN (CHOOSE i \in 1..Len(thresholds) :
            /\ feature_value < thresholds[i]
            /\ \A j \in 1..(i - 1) : feature_value >= thresholds[j]) - 1
    ELSE Len(thresholds)

RECURSIVE _traverse_node(_, _)
\* ThresholdTreeTraverser._traverse_node; NULL is None (the path argument is
\* only logged)
_traverse_node(node, feature_values) ==
    IF node.split.none
    THEN IF node.metric # NoMetric /\ node.metric \in DOMAIN feature_values
         THEN feature_values[node.metric]
         ELSE NULL
    ELSE IF node.metric = NoMetric \/ node.metric \notin DOMAIN feature_values
    THEN NULL
    ELSE IF child_index_for(node.split.thresholds, feature_values[node.metric])
              >= Len(node.split.children)
    THEN NULL
    ELSE _traverse_node(
           At(node.split.children,
              child_index_for(node.split.thresholds, feature_values[node.metric])),
           feature_values)

\* format_value: f"{v:.6f}" of a number, in units of 10^-6 (no value of the
\* pool lies half way between two of them)
format_value(v) == (v + 5) \div 10

\* ThresholdTreeTraverser._generate_cache_key: the sorted "k-v" items and the
\* path, kept apart as the two sides of the "|"
_generate_cache_key(feature_values, path_) ==
    <<[k \in DOMAIN feature_values |-> format_value(feature_values[k])], path_>>

\* ThresholdTreeTraverser.get_threshold_for_path: the traverser after the call
\* and the value returned
get_threshold_for_path(t, feature_values, path_) ==
    IF \E key \in t.cache : key.key = _generate_cache_key(feature_values, path_)
    THEN [traverser |-> t,
          result |-> (CHOOSE key \in t.cache :
                        key.key = _generate_cache_key(feature_values, path_)).value]
    ELSE [traverser |->
            [t EXCEPT !.cache = @ \cup
               {[key |-> _generate_cache_key(feature_values, path_),
                 value |-> _traverse_node(t.tree.root, feature_values)]}],
          result |-> _traverse_node(t.tree.root, feature_values)]

\* ThresholdTreeTraverser.__init__
InitTraverse ==
    /\ pc = "traversing"
    /\ feature_row = Nothing
    /\ IdleWalk
    /\ IdleEval
    /\ IdleTable
    /\ service = [_df_lazy |-> "None", _filter_options_cache |-> "None",
                  _ready |-> FALSE]
    /\ traverser \in [tree : TraverserTrees, cache : {{}}]
    /\ response = [call |-> "none"]
    /\ history = [calls |-> 0, initialized |-> FALSE]

\* one call of get_threshold_for_path
GetThresholdForPath ==
    /\ pc = "traversing"
    /\ history.calls < MaxCalls
    /\ \E feature_values \in FeatureValues, path_ \in TraverserPaths :
         \E r \in {get_threshold_for_path(traverser, feature_values, path_)} :
           /\ traverser' = r.traverser
           /\ response' = [call |-> "get_threshold_for_path",
                           feature_values |-> feature_values, path |-> path_,
                           result |-> r.result]
    /\ history' = Called(history.initialized)
    /\ UNCHANGED <<pc, feature_row, request, structure, evalVars, walkVars,
                   tableVars, service>>

NextTraverse == GetThresholdForPath

SpecTraverse == InitTraverse /\ [][NextTraverse]_vars

\* C29: every call of get_threshold_for_path returns what an uncached
\* traversal from the root returns for the call's own feature values
C29_CacheIsTransparent ==
    response.call = "get_threshold_for_path"
    => response.result = _traverse_node(traverser.tree.root, response.feature_values)

-----------------------------------------------------------------------------
(* ThresholdMigrator (migration_utils.py); v1 thresholds in tenths *)

\* the default 0.5 of _create_pattern_split_for_scores and _convert_to_old_node
DefaultScoreThreshold == 5

ScoreMetrics == {"score_fuzz", "score_detection", "score_simulation"}

\* ThresholdMigrator._determine_category: the tests on the id's text select
\* the category the stage selects anyway
_determine_category(node_id, stage) ==
    IF stage = 0 \/ node_id = "root" THEN "root"
    ELSE IF stage = 1 THEN "feature_splitting"
    ELSE IF stage = 2 THEN "semantic_distance"
    ELSE IF stage = 3 THEN "score_agreement"
    ELSE "root"

\* lines 227-293: the patterns one child id contributes ("all3low" in
\* child_id, "all3high" in child_id; no id of the pool holds another marker)
score_patterns(child_id) ==
    CASE child_id = "all3low" ->
            <<Pattern([m \in ScoreMetrics |-> "low"], child_id)>>
      [] child_id = "all3high" ->
            <<Pattern([m \in ScoreMetrics |-> "high"], child_id)>>
      [] OTHER -> <<>>

RECURSIVE all_score_patterns(_, _)
all_score_patterns(children_ids_, i) ==
    IF i > Len(children_ids_) THEN <<>>
    ELSE score_patterns(children_ids_[i]) \o all_score_patterns(children_ids_, i + 1)

\* thresholds + [0.5] * (3 - len(thresholds)), then items 0, 1 and 2
padded(thresholds, i) ==
    IF i <= Len(thresholds) THEN thresholds[i] ELSE DefaultScoreThreshold

\* ThresholdMigrator._create_pattern_split_for_scores (children_ids is not
\* empty where it is called)
_create_pattern_split_for_scores(thresholds, children_ids_) ==
    PatternSplitRule(
      [m \in ScoreMetrics |->
         OnlyThreshold(CASE m = "score_fuzz" -> padded(thresholds, 1)
                         [] m = "score_detection" -> padded(thresholds, 2)
                         [] OTHER -> padded(thresholds, 3))],
      IF all_score_patterns(children_ids_, 1) # <<>>
      THEN all_score_patterns(children_ids_, 1)
      ELSE <<Pattern(<<>>, children_ids_[1])>>,
      children_ids_[1])

\* old_node.split and old_node.split.get('children')
has_children(old_node) ==
    ~old_node.split.none /\ Len(old_node.split.children) > 0

child_ids_of(old_node) ==
    [i \in 1..Len(old_node.split.children) |-> old_node.split.children[i].id]

\* lines 104-116: the rule of the converted node
converted_rule(old_node) ==
    IF ~has_children(old_node) THEN NoRule
    ELSE IF old_node.metric = "score_combined"
    THEN _create_pattern_split_for_scores(old_node.split.thresholds,
                                          child_ids_of(old_node))
    ELSE RangeSplitRule(IF old_node.metric = NoMetric THEN "unknown"
                        ELSE old_node.metric,
                        old_node.split.thresholds)

RECURSIVE _convert_node_recursive(_, _, _)
RECURSIVE convert_children(_, _, _, _)

\* lines 132-179: the children converted in order, each below the new node
convert_children(old_node, i, stage, parent_path_) ==
    IF i > Len(old_node.split.children) THEN <<>>
    ELSE _convert_node_recursive(
           old_node.split.children[i], stage + 1,
           Append(parent_path_,
                  ParentPathInfo(old_node.id,
                                 [type |-> converted_rule(old_node).type],
                                 i - 1, Nothing)))
         \o convert_children(old_node, i + 1, stage, parent_path_)

\* ThresholdMigrator._convert_node_recursive: the nodes it appends
_convert_node_recursive(old_node, stage, parent_path_) ==
    <<SankeyThreshold(old_node.id, stage,
                      _determine_category(old_node.id, stage), parent_path_,
                      converted_rule(old_node),
                      IF has_children(old_node) THEN child_ids_of(old_node)
                      ELSE <<>>)>>
    \o (IF has_children(old_node)
        THEN convert_children(old_node, 1, stage, parent_path_)
        ELSE <<>>)

\* ThresholdMigrator.migrate_to_v2: the nodes handed to ThresholdStructure
migrate_to_v2(old_tree) == _convert_node_recursive(old_tree.root, 0, <<>>)

\* conditions.get(m, PatternCondition()).threshold or 0.5
threshold_or_default(conditions, m) ==
    IF m \notin DOMAIN conditions THEN DefaultScoreThreshold
    ELSE IF conditions[m].threshold \in {NULL, 0} THEN DefaultScoreThreshold
    ELSE conditions[m].threshold

RECURSIVE _convert_to_old_node(_, _)
RECURSIVE convert_back_children(_, _, _)

\* lines 366-369: the children that get_node_by_id finds, converted
convert_back_children(new_node, i, v) ==
    IF i > Len(new_node.children_ids) THEN <<>>
    ELSE (IF \A j \in 1..Len(v) : v[j].id # new_node.children_ids[i] THEN <<>>
          ELSE <<_convert_to_old_node(
                   get_node_by_id(v, new_node.children_ids[i]), v)>>)
         \o convert_back_children(new_node, i + 1, v)

\* ThresholdMigrator._convert_to_old_node
_convert_to_old_node(new_node, v) ==
    ThresholdNode(
      new_node.id,
      CASE new_node.split_rule.type = "range" -> new_node.split_rule.metric
        [] new_node.split_rule.type = "pattern" -> "score_combined"
        [] OTHER -> NoMetric,
      IF new_node.split_rule.type = "none"
           \/ convert_back_children(new_node, 1, v) = <<>>
      THEN NoSplit
      ELSE Split(
             CASE new_node.split_rule.type = "range" ->
                    new_node.split_rule.thresholds
               [] new_node.split_rule.type = "pattern" ->
                    <<threshold_or_default(new_node.split_rule.conditions,
                                           "score_fuzz"),
                      threshold_or_default(new_node.split_rule.conditions,
                                           "score_detection"),
                      threshold_or_default(new_node.split_rule.conditions,
                                           "score_simulation")>>
               [] OTHER -> <<>>,
             convert_back_children(new_node, 1, v)))

\* ThresholdMigrator.migrate_to_v1
migrate_to_v1(v) == _convert_to_old_node(get_root(v), v)

\* the v1 trees handed to migrate_to_v2
V1Metrics == {NoMetric, "m1", "score_combined"}
V1Thresholds == {<<0>>, <<1>>, <<1, 2>>, <<2, 1>>, <<1, 2, 3>>}
V1LeafIds == {"a", "b", "all3low"}

V1Leaves == {ThresholdNode(id, NoMetric, NoSplit) : id \in V1LeafIds}

V1Inner ==
    {ThresholdNode("split_true", "m2", Split(<<1>>, <<x, y>>)) :
       x \in {ThresholdNode("c", NoMetric, NoSplit)},
       y \in {ThresholdNode("d", "m2", NoSplit),
              ThresholdNode("d", NoMetric, NoSplit)}}

V1Children ==
    {<<x, y>> : x \in V1Leaves \cup V1Inner, y \in V1Leaves}
    \cup {<<x, y, z>> : x \in V1Leaves, y \in V1Leaves, z \in V1Leaves}

V1Roots ==
    {ThresholdNode("root", metric, NoSplit) : metric \in V1Metrics}
    \cup {ThresholdNode("root", metric, Split(thresholds, children)) :
            metric \in V1Metrics, thresholds \in V1Thresholds,
            children \in {c \in V1Children :
                            \A i, j \in 1..Len(c) : c[i].id = c[j].id => i = j}}

InitMigrate ==
    /\ pc = "v1"
    /\ request \in {ThresholdTree(root, {}) : root \in V1Roots}
    /\ structure = <<>>
    /\ feature_row = Nothing
    /\ previous = NoResult
    /\ current_node = NoId
    /\ path = <<>>
    /\ stage_nodes = <<>>
    /\ parent_path = <<>>
    /\ forced = FALSE
    /\ final_node_id = NoId
    /\ IdleEval
    /\ IdleTable
    /\ IdleService

\* migrate_to_v2(old_tree): ThresholdStructure(nodes=nodes, ...) validates
MigrateToV2 ==
    /\ pc = "v1"
    /\ IF Accepted(migrate_to_v2(request))
       THEN /\ structure' = migrate_to_v2(request)
            /\ pc' = "v2"
            /\ response' = [call |-> "migrate_to_v2", raised |-> ""]
       ELSE /\ structure' = <<>>
            /\ pc' = "ValidationError"
            /\ response' = [call |-> "migrate_to_v2", raised |-> "ValidationError"]
    /\ UNCHANGED <<feature_row, request, evalVars, walkVars, tableVars, service,
                   traverser, history>>

\* migrate_to_v1(new_structure) on the structure just made
MigrateToV1 ==
    /\ pc = "v2"
    /\ pc' = "v1_back"
    /\ response' = [call |-> "migrate_to_v1", tree |-> migrate_to_v1(structure)]
    /\ UNCHANGED <<feature_row, request, structure, evalVars, walkVars, tableVars,
                   service, traverser, history>>

NextMigrate == MigrateToV2 \/ MigrateToV1

SpecMigrate == InitMigrate /\ [][NextMigrate]_vars

RECURSIVE C26_Nodes(_, _)
\* the nodes of a v1 subtree with their depths, parents first
C26_Nodes(node, depth) ==
    <<[id |-> node.id, depth |-> depth]>>
    \o (IF has_children(node)
        THEN LET RECURSIVE below(_)
                 below(i) ==
                     IF i > Len(node.split.children) THEN <<>>
                     ELSE C26_Nodes(node.split.children[i], depth + 1)
                          \o below(i + 1)
             IN below(1)
        ELSE <<>>)

\* C26, first half: an accepted migration has one node per v1 node, with the
\* node's depth as stage, and the v1 root as root
C26_OneNodePerNode ==
    pc \in {"v2", "v1_back"} =>
        /\ Accepted(structure)
        /\ Len(structure) = Len(C26_Nodes(request.root, 0))
        /\ \A i \in 1..Len(structure) :
              /\ structure[i].id = C26_Nodes(request.root, 0)[i].id
              /\ structure[i].stage = C26_Nodes(request.root, 0)[i].depth
        /\ get_root(structure).id = request.root.id

\* C26: migrate_to_v1 of an accepted migration gives back the v1 tree: the
\* same root id and, node by node, the same ids, metrics and thresholds
C26_RoundTrip ==
    pc = "v1_back" => response.tree = request.root

RECURSIVE C26_Plain(_)
\* a v1 subtree whose splitting nodes name a single metric and whose leaves
\* name none
C26_Plain(node) ==
    IF has_children(node)
    THEN /\ node.metric \notin {NoMetric, "score_combined"}
         /\ \A i \in 1..Len(node.split.children) : C26_Plain(node.split.children[i])
    ELSE node.metric = NoMetric /\ node.split.none

\* C26 on the trees of single-metric splits: the round trip gives the tree back
C26_PlainRoundTrip ==
    (pc = "v1_back" /\ C26_Plain(request.root)) => response.tree = request.root

\* C26 on score_combined splits with three non-zero thresholds
C26_ScoreRoundTrip ==
    (/\ pc = "v1_back"
     /\ request.root.metric = "score_combined"
     /\ Len(request.root.split.thresholds) = 3
     /\ \A i \in 1..Len(request.root.split.children) :
           C26_Plain(request.root.split.children[i]))
    => response.tree = request.root

-----------------------------------------------------------------------------
(* Stages along the traversal, under SpecWalk *)

\* C27, the premise: every node listed in children_ids has its parent's
\* stage + 1
C27_ChildStage ==
    \A i \in 1..Len(structure) : \A c \in 1..Len(structure[i].children_ids) :
        \A j \in 1..Len(structure) :
            structure[j].id = structure[i].children_ids[c]
                => structure[j].stage = structure[i].stage + 1

\* C27: in every accepted structure the k-th node of the path (root = 0) is
\* recorded under stage k, so that the stage -> node mapping has exactly one
\* entry per node of the path, none overwritten and none skipped
C27_StagePerPathNode ==
    /\ DOMAIN stage_nodes = 0..(Len(path) - 1)
    /\ \A k \in DOMAIN stage_nodes : stage_nodes[k] = At(path, k)

\* C27 for the structures that have the premise
C27_StagePerPathNodeGiven ==
    C27_ChildStage
    => /\ DOMAIN stage_nodes = 0..(Len(path) - 1)
       /\ \A k \in DOMAIN stage_nodes : stage_nodes[k] = At(path, k)

-----------------------------------------------------------------------------
(* Links and tree edges, under SpecTable *)

\* target is one of the children_ids of the node source
C28_Edge(source, target) ==
    \E i \in 1..Len(structure) :
        structure[i].id = source /\ Contains(structure[i].children_ids, target)

\* the path of some row of df has source immediately followed by target
C28_Traversed(source, target) ==
    \E r \in 1..Len(df) : \E k \in 1..(Len(C23_Walk(df[r]).path) - 1) :
        /\ C23_Walk(df[r]).path[k] = source
        /\ C23_Walk(df[r]).path[k + 1] = target

\* C28: every link emitted by build_sankey_data is an edge of the tree that
\* at least one feature traversed
C28_LinksAreTraversedEdges ==
    pc = "built" =>
        \A k \in 1..Len(links) :
            /\ C28_Edge(links[k].source, links[k].target)
            /\ C28_Traversed(links[k].source, links[k].target)

\* C28 on structures whose children are one stage below their parents: every
\* link joins the aggregated ids of two nodes that follow one another on the
\* path of some row
C28_AggregatedTraversed ==
    (pc = "built" /\ C27_ChildStage) =>
        \A k \in 1..Len(links) :
            \E r \in 1..Len(df) : \E i \in 1..(Len(C23_Walk(df[r]).path) - 1) :
                /\ _aggregate_node_id(C23_Walk(df[r]).path[i]) = links[k].source
                /\ _aggregate_node_id(C23_Walk(df[r]).path[i + 1]) = links[k].target

====
